---- MODULE Spec2Model ----
(***************************************************************************)
(* The simulation kernel of discrete-sim as its documentation describes    *)
(* it: the event queue and clock (Simulation.schedule / run), processes    *)
(* (Simulation.process, timeout) and the capacity Resource with priority   *)
(* queueing and preemption (Resource.request / release).                   *)
(*                                                                         *)
(* The kernel is written as operators on a record S holding the whole      *)
(* simulation state, so that a complete run can be evaluated as a function *)
(* of a state; the actions apply these operators to the variables.         *)
(***************************************************************************)
EXTENDS Integers, Sequences, FiniteSets, TLC

VARIABLES
  now,        \* Simulation.now
  queue,      \* the event queue: a set of events, each with a unique seq
  nextSeq,    \* sequence number of the next scheduled event
  trace,      \* events executed so far, in execution order (the event trace)
  procs,      \* the processes, by id 1..Len(procs)
  capacity,   \* Resource.capacity
  inUse,      \* Resource.inUse
  holders,    \* the Resource's holders, in grant order: [pid, prio]
  waitQueue,  \* the Resource's wait queue: [pid, prio, pre, arr]
  nextArr,    \* arrival number of the next queued request
  log,        \* what the Resource did, in order
  mode,       \* "idle", or "running" inside a run() call
  bounded,    \* whether the current / last run() call had an until
  until,      \* its until
  ran,        \* seqs of the events executed by the current / last run() call
  calls,      \* API calls made so far
  atCall,     \* the simulation state when the current / last run() was called
  buf,        \* a Buffer, its waiting requests and the processes using it
  store,      \* a Store, its waiting requests and the processes using it
  err,        \* the error the last call of schedule(), process() or run()
              \* raised to its caller, "none" if it returned normally
  pres,       \* a PriorityResource of the guide and the requests made of it
  play        \* a playground component: its refs and where runSimulation is

vars == <<now, queue, nextSeq, trace, procs, capacity, inUse, holders,
          waitQueue, nextArr, log, mode, bounded, until, ran, calls, atCall,
          buf, store, err, pres,
                 play>>

(***************************************************************************)
(* Bounds of the model.                                                    *)
(***************************************************************************)
MaxCalls == 4            \* API calls (schedule, process, cancel, run) in a behaviour

SchedTimes == {10, 60}          \* times given to schedule()
Priorities == {0, 1}            \* event priorities given to schedule()
ChildDelays == {0, 50}          \* a callback may schedule one more event
UntilVals == {10, 50, 100}      \* bounds given to run(until)
Capacities == {1, 2}            \* Resource capacities
TriagePriorities == {0, 5, 10}  \* three levels: critical, urgent, standard

ReqPriorities == {0, 10}        \* priorities given to request(): critical, minor
Works == {5, 10}                \* how long a process holds the Resource
ERWorks == {3, 10}              \* treatment times of the patients
Arrival == {3}                  \* run(3) lets a later process arrive at time 3
BufCapacities == {2}            \* Buffer capacities
BufLevels == {0, 1, 2}          \* initial levels of the Buffer
Amounts == {0, 1, 2, 3}         \* amounts given to Buffer put() and get()
Kinds == {"a", "b"}             \* what distinguishes the items put in the Store
Filters == {"any", "a", "b"}    \* get() without filter, or with a filter on the kind
StoreCapacities == {2}          \* Store capacity where the Store is not used
StoreSizes == {1, 2}            \* Store capacities
LoopPeriods == {10, 25}         \* the timeout of an endlessly looping process
WaitAmounts == {1, 2}           \* amounts of the requests that wait in the Buffer
WaitKinds ==                    \* waitFor: <<interval, maxIterations, T>>, the
  {<<2, 50, 200>>, <<2, 50, 3>>, \* predicate being sim.now >= T
   <<1, 2, 3>>, <<1, 50, 0>>}
Delays == {0, 5, 10}            \* the timeout of a process that throws after it
ArrivalTimes == {0, 5}          \* when the customers of the wait-time test arrive
CancelTimes == {25, 50}         \* when a callback cancels a process

(***************************************************************************)
(* The simulation state as one record.                                     *)
(***************************************************************************)
State ==
  [now |-> now, queue |-> queue, nextSeq |-> nextSeq, trace |-> trace,
   procs |-> procs, capacity |-> capacity, inUse |-> inUse,
   holders |-> holders, waitQueue |-> waitQueue, nextArr |-> nextArr,
   log |-> log]

\* An event. kind: "cb" a plain callback, "spawn" a callback that schedules
\* one more callback ("child") cdelay later, "arrive" a callback that calls
\* sim.process() for a customer who holds the Resource for cdelay,
\* "cancel" a callback that cancels process pid,
\* "start" the first step of process pid,
\* "timer" the end of a timeout of process pid, "interrupt" the delivery of
\* a preemption to process pid. tok is the continuation the event resumes.
Event(t, prio, seq, kind, pid, tok, cdelay) ==
  [time |-> t, priority |-> prio, seq |-> seq, kind |-> kind, pid |-> pid,
   tok |-> tok, cdelay |-> cdelay]

\* Variants of the queue's order, used to test the properties below: one
\* that ignores the priority, one that breaks ties last-scheduled-first.
EventBeforeNoPriority(a, b) ==
  \/ a.time < b.time
  \/ a.time = b.time /\ a.seq < b.seq

EventBeforeLifo(a, b) ==
  \/ a.time < b.time
  \/ a.time = b.time /\ a.priority < b.priority
  \/ a.time = b.time /\ a.priority = b.priority /\ a.seq > b.seq

\* The queue's order: time, then priority (lower first), then submission.
EventBefore(a, b) ==
  \/ a.time < b.time
  \/ a.time = b.time /\ a.priority < b.priority
  \/ a.time = b.time /\ a.priority = b.priority /\ a.seq < b.seq

\* The event the queue pops next.
MinEvent(q) == CHOOSE e \in q : \A f \in q \ {e} : EventBefore(e, f)

\* Variant: the events are not numbered.
EnqueueUnnumbered(S, t, prio, kind, pid, tok, cdelay) ==
  [S EXCEPT !.queue = @ \cup {Event(t, prio, 0, kind, pid, tok, cdelay)}]

\* Enqueue an event at time t (the kernel's internal scheduling).
Enqueue(S, t, prio, kind, pid, tok, cdelay) ==
  [S EXCEPT !.queue = @ \cup {Event(t, prio, S.nextSeq, kind, pid, tok, cdelay)},
            !.nextSeq = @ + 1]

\* Variant: schedule() accepts any time.
ScheduleOkAlways(S, t) == TRUE

\* Simulation.schedule(time, callback, priority): rejected (ValidationError,
\* nothing changes) when time is in the past.
ScheduleOk(S, t) == t >= S.now

\* What schedule(t, ...) raises to its caller.
ScheduleError(S, t) == IF ScheduleOk(S, t) THEN "none" ELSE "InvalidTimeError"

ScheduleCall(S, t, prio, kind, cdelay) ==
  IF ScheduleOk(S, t) THEN Enqueue(S, t, prio, kind, 0, 0, cdelay) ELSE S

(***************************************************************************)
(* Processes. A process is the documented request / timeout / release      *)
(* body: it requests the Resource with its priority, holds it for its      *)
(* remaining work, releases it and ends; when it is preempted it subtracts *)
(* the time already worked and requests again.                             *)
(*   handler "release": the handler calls release() first (patientProcess) *)
(*   handler "retry":   the handler only requests again                    *)
(***************************************************************************)
Proc(prio, pre, work, handler) ==
  [prio |-> prio, pre |-> pre, handler |-> handler, work |-> work,
   state |-> "Scheduled", pc |-> "new", tok |-> 1, remaining |-> work,
   start |-> 0]

\* Variant: only a completed process is not alive.
IsAliveUnlessCompleted(S, p) == S.procs[p].state # "Completed"

\* Resource.available
Available(S) == S.capacity - S.inUse

\* Process.isAlive()
IsAlive(S, p) == S.procs[p].state \notin {"Completed", "Cancelled"}

\* One more line of the Resource's log.
Log(S, e, p, by) ==
  [S EXCEPT !.log = Append(@,
     [e |-> e, pid |-> p, t |-> S.now, prio |-> S.procs[p].prio, by |-> by,
      byprio |-> IF by = 0 THEN 0 ELSE S.procs[by].prio,
      rem |-> S.procs[p].remaining])]

\* The body after request() has been granted: treatmentStartTime = sim.now,
\* then yield* timeout(timeRemaining), which suspends the process until a
\* timer event at now + timeRemaining.
Treat(S, p) ==
  LET S1 == [S EXCEPT !.procs[p].start = S.now,
                      !.procs[p].pc = "treating",
                      !.procs[p].state = "Suspended",
                      !.procs[p].tok = @ + 1]
  IN  Enqueue(Log(S1, "resume", p, 0), S.now + S.procs[p].remaining, 0,
              "timer", p, S1.procs[p].tok, 0)

\* The grant path: one more slot in use, p a holder, and p continues.
GrantTo(S, p) ==
  Treat(Log([S EXCEPT !.inUse = @ + 1,
                      !.holders = Append(@, [pid |-> p, prio |-> S.procs[p].prio])],
            "grant", p, 0), p)

\* Variants of the queue discipline: plain arrival order, and newest first.
InsertAtTail(wq, w) == Append(wq, w)

InsertAtHead(wq, w) == <<w>> \o wq

\* The wait queue is kept in ascending priority value, and in arrival order
\* among equal priorities: a new request goes behind every request whose
\* priority value is not larger than its own.
InsertWaiter(wq, w) ==
  LET k == Cardinality({i \in 1..Len(wq) : wq[i].prio <= w.prio})
  IN  SubSeq(wq, 1, k) \o <<w>> \o SubSeq(wq, k + 1, Len(wq))

\* The queue path.
QueueUp(S, p) ==
  Log([S EXCEPT !.waitQueue = InsertWaiter(@,
                    [pid |-> p, prio |-> S.procs[p].prio,
                     pre |-> S.procs[p].pre, arr |-> S.nextArr]),
                !.nextArr = @ + 1,
                !.procs[p].pc = "waiting",
                !.procs[p].state = "Suspended"],
      "queue", p, 0)

\* The holder a preemptive request looks at: the one with the largest
\* priority value (lowest precedence), the earliest granted among equals.
Victim(H) ==
  LET mx == CHOOSE m \in {H[i].prio : i \in 1..Len(H)} :
              \A i \in 1..Len(H) : H[i].prio <= m
      ix == CHOOSE i \in 1..Len(H) :
              H[i].prio = mx /\ \A j \in 1..(i - 1) : H[j].prio # mx
  IN  H[ix]

\* Variant: a holder of equal priority may be evicted too.
MayEvictOrEqual(prio, h) == prio <= h.prio

\* Whether a request of priority prio may evict holder h.
MayEvict(prio, h) == prio < h.prio

\* Eviction: the victim leaves the holders, its slot is free again, its
\* pending timeout no longer resumes it, and the preemption is delivered to
\* it as an event at the current time.
Evict(S, v, by) ==
  LET S1 == [S EXCEPT !.holders = SelectSeq(@, LAMBDA h : h.pid # v),
                      !.inUse = @ - 1,
                      !.procs[v].pc = "preempted",
                      !.procs[v].tok = @ + 1]
  IN  Enqueue(Log(S1, "evict", v, by), S.now, 0, "interrupt", v,
              S1.procs[v].tok, 0)

\* Resource.request(priority, preemptive) by process p.
Request(S, p) ==
  IF S.inUse < S.capacity
    THEN GrantTo(S, p)
    ELSE IF S.procs[p].pre /\ S.holders # <<>>
              /\ MayEvict(S.procs[p].prio, Victim(S.holders))
           THEN GrantTo(Evict(S, Victim(S.holders).pid, p), p)
           ELSE QueueUp(S, p)

\* Variant: release() frees the slot and grants nobody.
ReleaseGrantsNobody(S, p) ==
  Log([S EXCEPT !.inUse = @ - 1,
                !.holders = SelectSeq(@, LAMBDA h : h.pid # p)],
      "release", p, 0)

\* Variant: release() forgets to count the slot as free.
ReleaseKeepsCount(S, p) ==
  LET S1 == Log([S EXCEPT !.holders = SelectSeq(@, LAMBDA h : h.pid # p)],
                "release", p, 0)
  IN  IF S1.waitQueue # <<>>
        THEN GrantTo([S1 EXCEPT !.waitQueue = Tail(@)], Head(S1.waitQueue).pid)
        ELSE S1

\* Resource.release() called by process p: one slot less in use, p no
\* longer a holder, and the head of the wait queue, if any, is granted.
Release(S, p) ==
  LET S1 == Log([S EXCEPT !.inUse = @ - 1,
                          !.holders = SelectSeq(@, LAMBDA h : h.pid # p)],
                "release", p, 0)
  IN  IF S1.waitQueue # <<>>
        THEN GrantTo([S1 EXCEPT !.waitQueue = Tail(@)], Head(S1.waitQueue).pid)
        ELSE S1

\* The end of the timeout: the work is done, the process releases and ends.
Finish(S, p) ==
  LET S1 == Release([S EXCEPT !.procs[p].remaining = 0], p)
  IN  Log([S1 EXCEPT !.procs[p].state = "Completed", !.procs[p].pc = "done"],
          "done", p, 0)

\* The preemption handler of the process body.
Handle(S, p) ==
  LET S1 == Log(S, "interrupt", p, 0)
      S2 == IF S.procs[p].handler = "release" THEN Release(S1, p) ELSE S1
      S3 == [S2 EXCEPT !.procs[p].remaining = @ - (S.now - S.procs[p].start)]
  IN  Request(S3, p)

\* Variant: process() runs the first step of the body before it returns.
ProcessCallEager(S, pr) ==
  LET p == Len(S.procs) + 1
  IN  Request([S EXCEPT !.procs = Append(@, pr)], p)

\* Simulation.process(factory): the process exists at once and its first
\* step is an event at the current time.
ProcessCall(S, pr) ==
  LET p == Len(S.procs) + 1
  IN  Enqueue([S EXCEPT !.procs = Append(@, pr)], S.now, 0, "start", p, 1, 0)

\* Variant: cancel() marks the process and leaves its request in the queue.
CancelKeepsRequest(S, p) ==
  IF IsAlive(S, p) THEN [S EXCEPT !.procs[p].state = "Cancelled"] ELSE S

\* Variant: cancel() of a holder releases its slot.
CancelFreesSlot(S, p) ==
  IF ~IsAlive(S, p) THEN S
  ELSE LET S1 == [S EXCEPT !.procs[p].state = "Cancelled",
                           !.waitQueue = SelectSeq(@, LAMBDA w : w.pid # p)]
       IN  IF \E i \in 1..Len(S.holders) : S.holders[i].pid = p
             THEN Release(S1, p)
             ELSE S1

\* Process.cancel(): the process is Cancelled and leaves the wait queue if
\* it is in it; a slot it holds stays held.
CancelCall(S, p) ==
  IF IsAlive(S, p)
    THEN [S EXCEPT !.procs[p].state = "Cancelled",
                   !.waitQueue = SelectSeq(@, LAMBDA w : w.pid # p)]
    ELSE S

\* sim.schedule(t, () => process.cancel(), prio): the callback is one more
\* event, of kind "cancel", that carries the process.
ScheduleCancel(S, t, prio, p) ==
  IF ScheduleOk(S, t) THEN Enqueue(S, t, prio, "cancel", p, 0, 0) ELSE S

\* Variant: a resumption is delivered to a process that is no longer alive.
ResumesWhateverState(S, e) == S.procs[e.pid].tok = e.tok

\* What reset() does to process p: it is cancelled, and if its body has
\* started the interruption is thrown into it, so that its catch block
\* runs. The catch block of longRunningProcess (handler "loop") only logs;
\* that of processWithCleanup (handler "cleanup") calls release() if the
\* Resource has a slot in use.
Interrupt(S, p) ==
  LET S1 == CancelCall(S, p)
  IN  IF S.procs[p].pc = "new" THEN S1
      ELSE LET S2 == Log(S1, "cleanup", p, 0)
           IN  IF S.procs[p].handler = "cleanup" /\ S2.inUse > 0
                 THEN Release(S2, p)
                 ELSE S2

\* The processes from p on are interrupted if they are alive.
RECURSIVE InterruptAll(_, _)
InterruptAll(S, p) ==
  IF p > Len(S.procs) THEN S
  ELSE InterruptAll(IF IsAlive(S, p) THEN Interrupt(S, p) ELSE S, p + 1)

\* Variant: reset() clears the queue and the clock first and interrupts the
\* processes after that.
ResetClearsFirst(S) ==
  InterruptAll([S EXCEPT !.queue = {}, !.now = 0], 1)

\* Simulation.reset(): every live process is interrupted, then the event
\* queue is cleared and the clock is set to zero.
ResetCall(S) ==
  [InterruptAll(S, 1) EXCEPT !.queue = {}, !.now = 0]

\* Variant: an event of a suspension that has already ended resumes too.
ResumesStale(S, e) == IsAlive(S, e.pid)

\* Whether event e still resumes its process.
Resumes(S, e) == IsAlive(S, e.pid) /\ S.procs[e.pid].tok = e.tok

\* Variant: the event is popped but the clock is left alone.
AdvanceNoClock(S, e) ==
  [S EXCEPT !.queue = @ \ {e}, !.trace = Append(@, e)]

\* Popping event e: it leaves the queue and the clock moves to its time.
Advance(S, e) ==
  [S EXCEPT !.now = e.time, !.queue = @ \ {e}, !.trace = Append(@, e)]

\* Variant: the timeout ends one time unit late.
LoopStepLate(S, p) ==
  LET S1 == [S EXCEPT !.procs[p].state = "Suspended",
                      !.procs[p].pc = "looping",
                      !.procs[p].tok = @ + 1]
  IN  Enqueue(Log(S1, "step", p, 0), S.now + S.procs[p].work + 1, 0, "timer",
              p, S1.procs[p].tok, 0)

\* One turn of the body of an endlessly looping process (handler "loop"):
\* console.log, then yield* timeout(period), which suspends it until a
\* timer event one period later.
LoopStep(S, p) ==
  LET S1 == [S EXCEPT !.procs[p].state = "Suspended",
                      !.procs[p].pc = "looping",
                      !.procs[p].tok = @ + 1]
  IN  Enqueue(Log(S1, "step", p, 0), S.now + S.procs[p].work, 0, "timer", p,
              S1.procs[p].tok, 0)

\* Variant: the kernel swallows what a process step throws.
ThrowsNever(S, e) == FALSE

\* A process whose body is yield* waitFor(sim, () => sim.now >= cond,
\* {interval, maxIterations}) in a try block (handler "waitFor"): work is
\* the interval, max is maxIterations, polls counts the checks made.
Waiter(i, m, T) ==
  [prio |-> 0, pre |-> FALSE, handler |-> "waitFor", work |-> i,
   state |-> "Scheduled", pc |-> "new", tok |-> 1, remaining |-> 0,
   start |-> 0, max |-> m, polls |-> 0, cond |-> T]

\* The predicate of the waiting process p.
Predicate(S, p) == S.now >= S.procs[p].cond

\* Variant: the wait gives up one check later.
GivesUpLate(n, m) == n > m

\* Whether the wait gives up after n checks that found the predicate false.
GivesUp(n, m) == n >= m

\* The self-rescheduling delay of waitFor: the process is suspended until a
\* timer event one interval later.
PollLater(S, p) ==
  LET S1 == [S EXCEPT !.procs[p].state = "Suspended",
                      !.procs[p].pc = "polling",
                      !.procs[p].tok = @ + 1]
  IN  Enqueue(S1, S.now + S.procs[p].work, 0, "timer", p, S1.procs[p].tok, 0)

\* The first step of the waiting process: the wait begins.
WaitStart(S, p) ==
  PollLater(Log([S EXCEPT !.procs[p].start = S.now], "wait", p, 0), p)

\* One check of the predicate: the process goes on if it is true, receives
\* ConditionTimeoutError if it is false and this was the last check, and
\* is suspended for one more interval otherwise. The process ends after the
\* wait, either way.
Poll(S, p) ==
  LET S1 == Log([S EXCEPT !.procs[p].polls = @ + 1], "poll", p, 0)
      end == [S1 EXCEPT !.procs[p].state = "Completed", !.procs[p].pc = "done"]
  IN  IF Predicate(S1, p) THEN Log(end, "resume", p, 0)
      ELSE IF GivesUp(S1.procs[p].polls, S1.procs[p].max)
             THEN Log(end, "ConditionTimeoutError", p, 0)
             ELSE PollLater(S1, p)

\* A process whose body throws (handler "throw"): its first step is a
\* timeout, and the step after the timeout throws an error that it does not
\* catch. Whether executing event e makes a process step throw:
Throws(S, e) ==
  /\ e.kind = "timer"
  /\ Resumes(S, e)
  /\ S.procs[e.pid].handler = "throw"

\* The step that throws: the process is terminated, its state is Cancelled.
Throw(S, p) ==
  Log([S EXCEPT !.procs[p].state = "Cancelled", !.procs[p].pc = "threw"],
      "throw", p, 0)

\* The run loop's treatment of one popped event: the clock moves to the
\* event's time, then the callback runs.
Exec(S, e) ==
  LET S0 == Advance(S, e)
  IN  CASE e.kind = "cb" -> S0
        [] e.kind = "child" -> S0
        [] e.kind = "spawn" ->
             ScheduleCall(S0, S0.now + e.cdelay, e.priority, "child", 0)
        [] e.kind = "cancel" -> CancelCall(S0, e.pid)
        [] e.kind = "arrive" ->
             ProcessCall(S0, Proc(0, FALSE, e.cdelay, "retry"))
        [] e.kind = "start" ->
             IF ~Resumes(S0, e) THEN S0
             ELSE IF S0.procs[e.pid].handler \in {"loop", "throw"}
                    THEN LoopStep(S0, e.pid)
                    ELSE IF S0.procs[e.pid].handler = "waitFor"
                           THEN WaitStart(S0, e.pid)
                           ELSE Request(S0, e.pid)
        [] e.kind = "timer" ->
             IF ~Resumes(S0, e) THEN S0
             ELSE IF S0.procs[e.pid].handler = "waitFor"
                    THEN Poll(S0, e.pid)
             ELSE IF S0.procs[e.pid].handler = "loop"
                    THEN LoopStep(S0, e.pid)
                    ELSE IF S0.procs[e.pid].handler = "throw"
                           THEN Throw(S0, e.pid)
                           ELSE Finish(S0, e.pid)
        [] e.kind = "interrupt" ->
             IF Resumes(S0, e) THEN Handle(S0, e.pid) ELSE S0

\* Whether the run loop executes e in a call with this bound.
Due(e, bnd, u) == ~bnd \/ e.time <= u

\* The run loop's condition: an event is pending and it is due.
MoreToRun(S, bnd, u) ==
  IF S.queue = {} THEN FALSE ELSE Due(MinEvent(S.queue), bnd, u)

\* Variant: run(until) leaves the clock at the last event.
ClockStays(S, bnd, u) == S.now

\* The clock when run returns: until, if one was given.
ClockAtReturn(S, bnd, u) == IF bnd THEN u ELSE S.now

\* A whole run() call as a function of the state it starts in.
RECURSIVE RunAll(_, _, _)
RunAll(S, bnd, u) ==
  IF MoreToRun(S, bnd, u)
    THEN IF Throws(S, MinEvent(S.queue))
           THEN Exec(S, MinEvent(S.queue))
           ELSE RunAll(Exec(S, MinEvent(S.queue)), bnd, u)
    ELSE [S EXCEPT !.now = ClockAtReturn(S, bnd, u)]

(***************************************************************************)
(* Buffer. Every put() or get() is made by a process of its own, numbered  *)
(* in the order of the requests; st[p] is what has become of process p:    *)
(* "Resumed" (its request was satisfied and it continues), "Suspended"     *)
(* (it waits in a queue), "Failed" (the call raised ValidationError) or    *)
(* "Cancelled". hist records what the Buffer did, in order.                *)
(***************************************************************************)
NewBuffer(K, l0) ==
  [capacity |-> K, initial |-> l0, level |-> l0, putQueue |-> <<>>,
   getQueue |-> <<>>, st |-> <<>>, hist |-> <<>>]

BufNote(B, op, p, a, ev) ==
  [B EXCEPT !.hist = Append(@, [op |-> op, pid |-> p, amt |-> a, ev |-> ev])]

\* Variant: put() accepts any positive amount.
PutValidAnyAmount(B, a) == a > 0

\* put(amount) validation: amount > 0 and amount <= capacity.
PutValid(B, a) == a > 0 /\ a <= B.capacity

\* get(amount) validation: amount > 0.
GetValid(B, a) == a > 0

\* Variant: a put fits whenever the Buffer is not full.
PutFitsIfNotFull(B, a) == B.level < B.capacity

\* Whether a put of a fits now, and whether a get of a can be taken now.
PutFits(B, a) == B.capacity - B.level >= a

GetFits(B, a) == B.level >= a

\* The head of a queue is satisfied: the level changes, the request leaves
\* the queue and its process is resumed.
ServePut(B) ==
  LET r == Head(B.putQueue)
  IN  BufNote([B EXCEPT !.level = @ + r.amt, !.putQueue = Tail(@),
                        !.st[r.pid] = "Resumed"],
              "put", r.pid, r.amt, "done")

ServeGet(B) ==
  LET r == Head(B.getQueue)
  IN  BufNote([B EXCEPT !.level = @ - r.amt, !.getQueue = Tail(@),
                        !.st[r.pid] = "Resumed"],
              "get", r.pid, r.amt, "done")

\* The queues are drained in order, each up to the first request that cannot
\* be satisfied yet, for as long as the level keeps changing.
RECURSIVE DrainGets(_, _), DrainPuts(_, _)
DrainGets(B, more) ==
  IF B.getQueue # <<>> /\ GetFits(B, Head(B.getQueue).amt)
    THEN DrainGets(ServeGet(B), TRUE)
    ELSE IF more THEN DrainPuts(B, FALSE) ELSE B

DrainPuts(B, more) ==
  IF B.putQueue # <<>> /\ PutFits(B, Head(B.putQueue).amt)
    THEN DrainPuts(ServePut(B), TRUE)
    ELSE IF more THEN DrainGets(B, FALSE) ELSE B

\* buffer.put(a) by a new process.
BufPut(B, a) ==
  LET p == Len(B.st) + 1
  IN  IF ~PutValid(B, a)
        THEN BufNote([B EXCEPT !.st = Append(@, "Failed")], "put", p, a, "error")
        ELSE IF PutFits(B, a)
          THEN DrainGets(BufNote([B EXCEPT !.level = @ + a,
                                           !.st = Append(@, "Resumed")],
                                 "put", p, a, "done"), FALSE)
          ELSE BufNote([B EXCEPT !.putQueue = Append(@, [pid |-> p, amt |-> a]),
                                 !.st = Append(@, "Suspended")],
                       "put", p, a, "queued")

\* buffer.get(a) by a new process.
BufGet(B, a) ==
  LET p == Len(B.st) + 1
  IN  IF ~GetValid(B, a)
        THEN BufNote([B EXCEPT !.st = Append(@, "Failed")], "get", p, a, "error")
        ELSE IF GetFits(B, a)
          THEN DrainPuts(BufNote([B EXCEPT !.level = @ - a,
                                           !.st = Append(@, "Resumed")],
                                 "get", p, a, "done"), FALSE)
          ELSE BufNote([B EXCEPT !.getQueue = Append(@, [pid |-> p, amt |-> a]),
                                 !.st = Append(@, "Suspended")],
                       "get", p, a, "queued")

\* cancel() of process p: a waiting request of p leaves its queue.
BufCancel(B, p) ==
  IF B.st[p] \in {"Failed", "Cancelled"}
    THEN B
    ELSE BufNote([B EXCEPT !.st[p] = "Cancelled",
                           !.putQueue = SelectSeq(@, LAMBDA r : r.pid # p),
                           !.getQueue = SelectSeq(@, LAMBDA r : r.pid # p)],
                 "cancel", p, 0, "cancel")

(***************************************************************************)
(* Store. As for the Buffer, every put() or get() is made by a process of  *)
(* its own. An item is [id, kind], id being the number of the process that *)
(* put it; items are kept in insertion order. A get carries a filter:      *)
(* "any" for none, or the kind it asks for.                                *)
(***************************************************************************)
NewStore(K) ==
  [capacity |-> K, items |-> <<>>, putQueue |-> <<>>, getQueue |-> <<>>,
   st |-> <<>>, hist |-> <<>>]

\* hist: op and ev as for the Buffer, what is the kind or the filter, item
\* the id of the item concerned (0: none), had the items in the store when a
\* get was resolved.
StoreNote(T, op, p, what, ev, item, had) ==
  [T EXCEPT !.hist = Append(@, [op |-> op, pid |-> p, what |-> what, ev |-> ev,
                                item |-> item, had |-> had])]

Matches(f, it) == f = "any" \/ it.kind = f

HasMatch(items, f) == \E i \in 1..Len(items) : Matches(f, items[i])

\* Variant: the last matching item.
LastMatch(items, f) ==
  CHOOSE i \in 1..Len(items) :
    Matches(f, items[i]) /\ \A j \in (i + 1)..Len(items) : ~Matches(f, items[j])

\* The position of the first item the filter accepts.
FirstMatch(items, f) ==
  CHOOSE i \in 1..Len(items) :
    Matches(f, items[i]) /\ \A j \in 1..(i - 1) : ~Matches(f, items[j])

\* Variant: there is always room.
HasSpaceAlways(T) == TRUE

HasSpace(T) == Len(T.items) < T.capacity

RemoveAt(q, i) == SubSeq(q, 1, i - 1) \o SubSeq(q, i + 1, Len(q))

\* Variant: the last waiting get that some item satisfies.
LastGetter(T) ==
  LET ok == {k \in 1..Len(T.getQueue) : HasMatch(T.items, T.getQueue[k].filter)}
  IN  IF ok = {} THEN 0 ELSE CHOOSE k \in ok : \A m \in ok : m <= k

\* The first waiting get, in arrival order, that some item satisfies (0 if
\* there is none).
NextGetter(T) ==
  LET ok == {k \in 1..Len(T.getQueue) : HasMatch(T.items, T.getQueue[k].filter)}
  IN  IF ok = {} THEN 0 ELSE CHOOSE k \in ok : \A m \in ok : k <= m

\* Variant: the item is handed over but stays in the store.
TakeKeepsItem(T, p, f) ==
  LET i == FirstMatch(T.items, f)
  IN  StoreNote([T EXCEPT !.st[p] = "Resumed"],
                "get", p, f, "done", T.items[i].id, T.items)

\* Process p with filter f takes its item out of the store.
Take(T, p, f) ==
  LET i == FirstMatch(T.items, f)
  IN  StoreNote([T EXCEPT !.items = RemoveAt(@, i), !.st[p] = "Resumed"],
                "get", p, f, "done", T.items[i].id, T.items)

\* The waiting gets are matched against the items, in arrival order.
RECURSIVE MatchGets(_)
MatchGets(T) ==
  LET k == NextGetter(T)
  IN  IF k = 0 THEN T
      ELSE MatchGets(Take([T EXCEPT !.getQueue = RemoveAt(@, k)],
                          T.getQueue[k].pid, T.getQueue[k].filter))

\* Variant: waiting puts are not admitted when room appears.
SettleNothing(T) == T

\* While there is room the waiting puts are admitted in order, the waiting
\* gets being matched after each.
RECURSIVE Settle(_)
Settle(T) ==
  IF T.putQueue # <<>> /\ HasSpace(T)
    THEN LET r == Head(T.putQueue)
         IN  Settle(MatchGets(
               StoreNote([T EXCEPT !.items = Append(@, r.item),
                                   !.putQueue = Tail(@),
                                   !.st[r.pid] = "Resumed"],
                         "put", r.pid, r.item.kind, "done", r.item.id, <<>>)))
    ELSE T

\* store.put(item) by a new process.
StorePut(T, kind) ==
  LET p == Len(T.st) + 1
      it == [id |-> p, kind |-> kind]
  IN  IF HasSpace(T)
        THEN Settle(MatchGets(
               StoreNote([T EXCEPT !.items = Append(@, it),
                                   !.st = Append(@, "Resumed")],
                         "put", p, kind, "done", p, <<>>)))
        ELSE StoreNote([T EXCEPT !.putQueue = Append(@, [pid |-> p, item |-> it]),
                                 !.st = Append(@, "Suspended")],
                       "put", p, kind, "queued", p, <<>>)

\* store.get(filter) by a new process.
StoreGet(T, f) ==
  LET p == Len(T.st) + 1
  IN  IF HasMatch(T.items, f)
        THEN Settle(Take([T EXCEPT !.st = Append(@, "Suspended")], p, f))
        ELSE StoreNote([T EXCEPT !.getQueue = Append(@, [pid |-> p, filter |-> f]),
                                 !.st = Append(@, "Suspended")],
                       "get", p, f, "queued", 0, <<>>)

\* cancel() of process p: a waiting request of p leaves its queue.
StoreCancel(T, p) ==
  IF T.st[p] = "Cancelled"
    THEN T
    ELSE StoreNote([T EXCEPT !.st[p] = "Cancelled",
                             !.putQueue = SelectSeq(@, LAMBDA r : r.pid # p),
                             !.getQueue = SelectSeq(@, LAMBDA r : r.pid # p)],
                   "cancel", p, "any", "cancel", 0, <<>>)

(***************************************************************************)
(* The PriorityResource class of the guide. A request is numbered by its   *)
(* arrival; the queue holds [priority, id], id standing for the resolve    *)
(* function of the request's promise. granted is kept by the callers: the  *)
(* requests whose promise has resolved and that have not called release()  *)
(* yet. hist lists the requests in the order their promises resolved.      *)
(***************************************************************************)
NewPriorityResource(K) ==
  [capacity |-> K, inUse |-> 0, queue |-> <<>>, granted |-> {}, next |-> 1,
   hist |-> <<>>]

\* Variant: the queue is left in arrival order.
KeepArrivalOrder(q) == q

\* queue.sort((a, b) => a.priority - b.priority): ascending priority, equal
\* priorities keeping their order (the sort is stable).
RECURSIVE SortByPriority(_)
SortByPriority(q) ==
  IF q = <<>> THEN <<>>
  ELSE LET m == CHOOSE i \in 1..Len(q) :
                  \A j \in 1..Len(q) :
                     \/ q[i].priority < q[j].priority
                     \/ q[i].priority = q[j].priority /\ i <= j
       IN  <<q[m]>> \o SortByPriority(RemoveAt(q, m))

Resolve(R, r, waited) ==
  [R EXCEPT !.granted = @ \cup {r.id},
            !.hist = Append(@, [id |-> r.id, priority |-> r.priority,
                                waited |-> waited])]

\* PriorityResource.request(priority)
PRRequest(R, prio) ==
  LET r == [priority |-> prio, id |-> R.next]
      R1 == [R EXCEPT !.next = @ + 1]
  IN  IF R.inUse < R.capacity
        THEN Resolve([R1 EXCEPT !.inUse = @ + 1], r, FALSE)
        ELSE [R1 EXCEPT !.queue = SortByPriority(Append(@, r))]

\* Variant: release() always decrements inUse.
PRReleaseDecrements(R) ==
  IF Len(R.queue) > 0
    THEN Resolve([R EXCEPT !.queue = Tail(@), !.inUse = @ - 1],
                 Head(R.queue), TRUE)
    ELSE [R EXCEPT !.inUse = @ - 1]

\* PriorityResource.release()
PRRelease(R) ==
  IF Len(R.queue) > 0
    THEN Resolve([R EXCEPT !.queue = Tail(@)], Head(R.queue), TRUE)
    ELSE [R EXCEPT !.inUse = @ - 1]

(***************************************************************************)
(* The playgrounds. Both components step a simulation from runSimulation,  *)
(* which is resumed after the import of the library and after every        *)
(* setTimeout. Times are in tenths of a time unit (the step of both        *)
(* loops). pc is where the call of runSimulation stands: "idle" (none was  *)
(* made), "import", "sleep" (in setTimeout) or "done"; reset records that  *)
(* resetSimulation was requested by the button since the call began.       *)
(***************************************************************************)
Components == {"MM1", "CoffeeShop"}

\* SIM_DURATION = 50 and totalSteps = 60, in tenths
SIM_DURATION == 500

TotalSteps == 600

NewPlayground ==
  [which |-> "MM1", isRunning |-> FALSE, pc |-> "idle", simNow |-> 0,
   currentTime |-> 0, currentStep |-> 0, eventLog |-> <<>>, reset |-> FALSE]

\* addEvent(message): the log keeps the last 15 entries.
AddEvent(P, message) ==
  LET l == Append(P.eventLog, message)
  IN  [P EXCEPT !.eventLog = IF Len(l) > 15 THEN Tail(l) ELSE l]

\* resetSimulation()
ResetSimulation(P) ==
  [P EXCEPT !.isRunning = FALSE, !.currentTime = 0, !.eventLog = <<>>]

\* runSimulation() up to its await of the import: the M/M/1 playground sets
\* isRunning and then calls resetSimulation(), the coffee shop calls
\* resetSimulation() and then sets isRunning.
RunSimulationCall(P, c) ==
  LET P1 == IF c = "MM1"
              THEN ResetSimulation([P EXCEPT !.isRunning = TRUE])
              ELSE [ResetSimulation(P) EXCEPT !.isRunning = TRUE]
  IN  [P1 EXCEPT !.which = c, !.pc = "import", !.reset = FALSE]

\* From the test of the stepping loop to the next setTimeout or to the end
\* of runSimulation. sim.run(until) leaves the clock at until.
Resume(P) ==
  IF P.which = "MM1"
    THEN IF P.simNow < SIM_DURATION /\ P.isRunning
           THEN [P EXCEPT !.simNow = @ + 1, !.currentTime = P.simNow + 1,
                          !.pc = "sleep"]
           ELSE [AddEvent(P, "Simulation completed")
                   EXCEPT !.isRunning = FALSE, !.pc = "done"]
    ELSE IF ~P.isRunning \/ P.currentStep > TotalSteps
           THEN [P EXCEPT !.isRunning = FALSE, !.pc = "done"]
           ELSE [P EXCEPT !.simNow = P.currentStep,
                          !.currentTime = P.currentStep,
                          !.currentStep = @ + 1, !.pc = "sleep"]

\* The import has resolved: the simulation is created and the loop begins.
AfterImport(P) ==
  Resume(IF P.which = "MM1"
           THEN [AddEvent(P, "Simulation started") EXCEPT !.simNow = 0]
           ELSE [P EXCEPT !.simNow = 0, !.currentStep = 1])

(***************************************************************************)
(* Actions.                                                                *)
(***************************************************************************)
Install(T) ==
  /\ now' = T.now
  /\ queue' = T.queue
  /\ nextSeq' = T.nextSeq
  /\ trace' = T.trace
  /\ procs' = T.procs
  /\ capacity' = T.capacity
  /\ inUse' = T.inUse
  /\ holders' = T.holders
  /\ waitQueue' = T.waitQueue
  /\ nextArr' = T.nextArr
  /\ log' = T.log

InitKernel ==
  /\ now = 0
  /\ queue = {}
  /\ nextSeq = 1
  /\ trace = <<>>
  /\ procs = <<>>
  /\ capacity \in Capacities
  /\ inUse = 0
  /\ holders = <<>>
  /\ waitQueue = <<>>
  /\ nextArr = 1
  /\ log = <<>>
  /\ mode = "idle"
  /\ bounded = FALSE
  /\ until = 0
  /\ ran = {}
  /\ calls = 0
  /\ atCall = State
  /\ err = "none"

\* The simulation as constructed; the PriorityResource and the playground
\* have not been used.
InitSim ==
  /\ InitKernel
  /\ pres = NewPriorityResource(1)
  /\ play = NewPlayground

\* A simulation with a Resource, an empty Buffer and an empty Store.
Init ==
  /\ InitSim
  /\ \E K \in BufCapacities : buf = NewBuffer(K, 0)
  /\ \E K \in StoreCapacities : store = NewStore(K)

\* sim.schedule(t, callback, prio) called between run() calls.
Schedule(t, prio, kind, cdelay) ==
  /\ mode # "running"
  /\ calls < MaxCalls
  /\ Install(ScheduleCall(State, t, prio, kind, cdelay))
  /\ err' = ScheduleError(State, t)
  /\ calls' = calls + 1
  /\ mode' = "idle"
  /\ UNCHANGED <<bounded, until, ran, atCall, buf, store, pres, play>>

\* sim.run()
Run ==
  /\ mode # "running"
  /\ calls < MaxCalls
  /\ mode' = "running"
  /\ bounded' = FALSE
  /\ until' = 0
  /\ ran' = {}
  /\ calls' = calls + 1
  /\ atCall' = State
  /\ err' = "none"
  /\ UNCHANGED <<now, queue, nextSeq, trace, procs, capacity, inUse, holders,
                 waitQueue, nextArr, log, buf, store, pres, play>>

\* sim.run(u)
RunUntil(u) ==
  /\ mode # "running"
  /\ calls < MaxCalls
  /\ mode' = "running"
  /\ bounded' = TRUE
  /\ until' = u
  /\ ran' = {}
  /\ calls' = calls + 1
  /\ atCall' = State
  /\ err' = "none"
  /\ UNCHANGED <<now, queue, nextSeq, trace, procs, capacity, inUse, holders,
                 waitQueue, nextArr, log, buf, store, pres, play>>

\* One turn of the run loop: pop the next event and execute it.
Step ==
  /\ mode = "running"
  /\ MoreToRun(State, bounded, until)
  /\ Install(Exec(State, MinEvent(queue)))
  /\ ran' = ran \cup {MinEvent(queue).seq}
  /\ IF Throws(State, MinEvent(queue))
       THEN mode' = "raised" /\ err' = "Error"
       ELSE UNCHANGED <<mode, err>>
  /\ UNCHANGED <<bounded, until, calls, atCall, buf, store, pres, play>>

\* run returns: nothing is left to execute in this call.
Return ==
  /\ mode = "running"
  /\ ~MoreToRun(State, bounded, until)
  /\ now' = ClockAtReturn(State, bounded, until)
  /\ mode' = "returned"
  /\ UNCHANGED <<queue, nextSeq, trace, procs, capacity, inUse, holders,
                 waitQueue, nextArr, log, bounded, until, ran, calls, atCall,
                 buf, store, err, pres,
                 play>>

\* sim.process(...) called between run() calls.
Process(prio, pre, work, handler) ==
  /\ mode # "running"
  /\ calls < MaxCalls
  /\ Install(ProcessCall(State, Proc(prio, pre, work, handler)))
  /\ err' = "none"
  /\ calls' = calls + 1
  /\ mode' = "idle"
  /\ UNCHANGED <<bounded, until, ran, atCall, buf, store, pres, play>>

\* process.cancel(), called between run() calls or by a callback during one.
Cancel(p) ==
  /\ calls < MaxCalls
  /\ Install(CancelCall(State, p))
  /\ calls' = calls + 1
  /\ UNCHANGED <<mode, bounded, until, ran, atCall, buf, store, err, pres,
                 play>>

\* sim.process(...) of a process that waits for a condition.
WaitProcess(i, m, T) ==
  /\ mode # "running"
  /\ calls < MaxCalls
  /\ Install(ProcessCall(State, Waiter(i, m, T)))
  /\ err' = "none"
  /\ calls' = calls + 1
  /\ mode' = "idle"
  /\ UNCHANGED <<bounded, until, ran, atCall, buf, store, pres, play>>

\* sim.reset() called between run() calls.
Reset ==
  /\ mode # "running"
  /\ calls < MaxCalls
  /\ Install(ResetCall(State))
  /\ err' = "none"
  /\ calls' = calls + 1
  /\ mode' = "idle"
  /\ UNCHANGED <<bounded, until, ran, atCall, buf, store, pres, play>>

\* sim.run(u) with u not in the past.
RunAhead(u) == u >= now /\ RunUntil(u)

\* sim.schedule(t, () => process.cancel(), prio) called between run() calls.
ScheduleCancelOf(p, t, prio) ==
  /\ mode # "running"
  /\ calls < MaxCalls
  /\ Install(ScheduleCancel(State, t, prio, p))
  /\ err' = ScheduleError(State, t)
  /\ calls' = calls + 1
  /\ mode' = "idle"
  /\ UNCHANGED <<bounded, until, ran, atCall, buf, store, pres, play>>

\* sim.run() when every endlessly looping process that is alive has a
\* cancellation pending: the calls of run() without bound that can return.
RunToEnd ==
  /\ \A p \in 1..Len(procs) :
        (procs[p].handler = "loop" /\ IsAlive(State, p)) =>
           \E e \in queue : e.kind = "cancel" /\ e.pid = p
  /\ Run

\* buffer.put(a) / buffer.get(a) / cancel() of a process using the Buffer.
Put(a) ==
  /\ calls < MaxCalls
  /\ buf' = BufPut(buf, a)
  /\ calls' = calls + 1
  /\ UNCHANGED <<now, queue, nextSeq, trace, procs, capacity, inUse, holders,
                 waitQueue, nextArr, log, mode, bounded, until, ran, atCall,
                 store, err, pres,
                 play>>

Get(a) ==
  /\ calls < MaxCalls
  /\ buf' = BufGet(buf, a)
  /\ calls' = calls + 1
  /\ UNCHANGED <<now, queue, nextSeq, trace, procs, capacity, inUse, holders,
                 waitQueue, nextArr, log, mode, bounded, until, ran, atCall,
                 store, err, pres,
                 play>>

CancelBufUser(p) ==
  /\ calls < MaxCalls
  /\ buf' = BufCancel(buf, p)
  /\ calls' = calls + 1
  /\ UNCHANGED <<now, queue, nextSeq, trace, procs, capacity, inUse, holders,
                 waitQueue, nextArr, log, mode, bounded, until, ran, atCall,
                 store, err, pres,
                 play>>

\* store.put(item) / store.get(filter) / cancel() of a process using the Store.
PutItem(kind) ==
  /\ calls < MaxCalls
  /\ store' = StorePut(store, kind)
  /\ calls' = calls + 1
  /\ UNCHANGED <<now, queue, nextSeq, trace, procs, capacity, inUse, holders,
                 waitQueue, nextArr, log, mode, bounded, until, ran, atCall,
                 buf, err, pres,
                 play>>

GetItem(f) ==
  /\ calls < MaxCalls
  /\ store' = StoreGet(store, f)
  /\ calls' = calls + 1
  /\ UNCHANGED <<now, queue, nextSeq, trace, procs, capacity, inUse, holders,
                 waitQueue, nextArr, log, mode, bounded, until, ran, atCall,
                 buf, err, pres,
                 play>>

CancelStoreUser(p) ==
  /\ calls < MaxCalls
  /\ store' = StoreCancel(store, p)
  /\ calls' = calls + 1
  /\ UNCHANGED <<now, queue, nextSeq, trace, procs, capacity, inUse, holders,
                 waitQueue, nextArr, log, mode, bounded, until, ran, atCall,
                 buf, err, pres,
                 play>>

KernelIdle ==
  UNCHANGED <<now, queue, nextSeq, trace, procs, capacity, inUse, holders,
              waitQueue, nextArr, log, mode, bounded, until, ran, atCall,
              buf, store, err>>

\* A caller requests the PriorityResource with a priority.
Acquire(prio) ==
  /\ calls < MaxCalls
  /\ pres' = PRRequest(pres, prio)
  /\ calls' = calls + 1
  /\ KernelIdle
  /\ UNCHANGED play

\* A caller whose request was granted calls release(), once.
GiveBack(id) ==
  /\ id \in pres.granted
  /\ pres' = PRRelease([pres EXCEPT !.granted = @ \ {id}])
  /\ KernelIdle
  /\ UNCHANGED <<calls, play>>

\* The Run button, enabled while isRunning is false; one call of
\* runSimulation is followed at a time.
RunSimulation(c) ==
  /\ ~play.isRunning
  /\ play.pc \in {"idle", "done"}
  /\ play' = RunSimulationCall(play, c)
  /\ KernelIdle
  /\ UNCHANGED <<calls, pres>>

\* The import of the library resolves.
Imported ==
  /\ play.pc = "import"
  /\ play' = AfterImport(play)
  /\ KernelIdle
  /\ UNCHANGED <<calls, pres>>

\* The setTimeout of the stepping loop fires.
Timeout ==
  /\ play.pc = "sleep"
  /\ play' = Resume(play)
  /\ KernelIdle
  /\ UNCHANGED <<calls, pres>>

\* The Reset button, enabled while isRunning is false.
ResetButton ==
  /\ ~play.isRunning
  /\ play' = [ResetSimulation(play)
                EXCEPT !.reset = play.pc \in {"import", "sleep"}]
  /\ KernelIdle
  /\ UNCHANGED <<calls, pres>>

\* The scheduler alone: callbacks scheduled by the caller and by callbacks.
NextSched ==
  \/ \E t \in SchedTimes, prio \in Priorities : Schedule(t, prio, "cb", 0)
  \/ \E t \in SchedTimes, prio \in Priorities, d \in ChildDelays :
        Schedule(t, prio, "spawn", d)
  \/ Run
  \/ \E u \in UntilVals : RunUntil(u)
  \/ Step
  \/ Return

InitSched == Init /\ capacity = 1

SpecSched == InitSched /\ [][NextSched]_vars

\* The Resource used by processes that request, hold, release, and request
\* again when they are preempted: every release() is by a holder.
NextRes ==
  \/ \E prio \in ReqPriorities, pre \in BOOLEAN, w \in Works :
        Process(prio, pre, w, "retry")
  \/ \E p \in 1..Len(procs) : Cancel(p)
  \/ Run
  \/ \E u \in Arrival : RunAhead(u)
  \/ Step
  \/ Return

SpecRes == Init /\ [][NextRes]_vars

\* The emergency room: patients follow patientProcess, whose preemption
\* handler calls release() before it requests again; critical patients
\* (priority 0) request preemptively.
NextER ==
  \/ \E prio \in ReqPriorities, w \in ERWorks :
        Process(prio, prio = 0, w, "release")
  \/ Run
  \/ \E u \in Arrival : RunAhead(u)
  \/ Step
  \/ Return

SpecER == Init /\ [][NextER]_vars

\* Processes whose body throws after a timeout, next to processes that use
\* the Resource and to plain callbacks.
NextThrow ==
  \/ \E d \in Delays : Process(0, FALSE, d, "throw")
  \/ \E prio \in ReqPriorities, w \in Works : Process(prio, FALSE, w, "retry")
  \/ \E t \in SchedTimes : Schedule(t, 0, "cb", 0)
  \/ Run
  \/ \E u \in UntilVals : RunAhead(u)
  \/ Step
  \/ Return

SpecThrow == InitSched /\ [][NextThrow]_vars

\* Long-running processes and processes that clean up after themselves, run
\* for a while and reset.
NextReset ==
  \/ \E d \in LoopPeriods : Process(0, FALSE, d, "loop")
  \/ \E w \in Works : Process(0, FALSE, w, "cleanup")
  \/ \E u \in Arrival \cup UntilVals : RunAhead(u)
  \/ Step
  \/ Return
  \/ Reset

SpecReset == InitSched /\ [][NextReset]_vars

\* Processes that wait for a condition by polling.
NextWait ==
  \/ \E k \in WaitKinds : WaitProcess(k[1], k[2], k[3])
  \/ Run
  \/ \E u \in Arrival : RunAhead(u)
  \/ Step
  \/ Return

SpecWait == InitSched /\ [][NextWait]_vars

\* Customers that arrive by scheduled callbacks, request the Resource, record
\* their wait, hold the Resource and release it.
NextArrive ==
  \/ \E t \in ArrivalTimes, w \in Works : Schedule(t, 0, "arrive", w)
  \/ Run
  \/ \E u \in Arrival : RunAhead(u)
  \/ Step
  \/ Return

SpecArrive == InitSched /\ [][NextArrive]_vars

\* Endlessly looping processes, cancelled by callbacks or by the caller.
NextLoop ==
  \/ \E d \in LoopPeriods : Process(0, FALSE, d, "loop")
  \/ \E p \in 1..Len(procs), t \in CancelTimes, prio \in Priorities :
        ScheduleCancelOf(p, t, prio)
  \/ \E p \in 1..Len(procs) : Cancel(p)
  \/ RunToEnd
  \/ Step
  \/ Return

\* The run loop goes on while an event is due, and returns when none is.
SpecLoop ==
  /\ InitSched
  /\ [][NextLoop]_vars
  /\ WF_vars(Step)
  /\ WF_vars(Return)

\* Three customers have been created and none has run yet; the Resource has
\* one slot, the Buffer and the Store are empty.
Customers ==
  {ProcessCall(ProcessCall(ProcessCall(
       [now |-> 0, queue |-> {}, nextSeq |-> 1, trace |-> <<>>,
        procs |-> <<>>, capacity |-> 1, inUse |-> 0, holders |-> <<>>,
        waitQueue |-> <<>>, nextArr |-> 1, log |-> <<>>],
       Proc(a, FALSE, 10, "retry")), Proc(b, FALSE, 10, "retry")),
       Proc(c, FALSE, 10, "retry")) : a, b, c \in ReqPriorities}

InitCancel ==
  /\ \E T \in Customers :
       /\ now = T.now
       /\ queue = T.queue
       /\ nextSeq = T.nextSeq
       /\ trace = T.trace
       /\ procs = T.procs
       /\ capacity = T.capacity
       /\ inUse = T.inUse
       /\ holders = T.holders
       /\ waitQueue = T.waitQueue
       /\ nextArr = T.nextArr
       /\ log = T.log
  /\ mode = "idle"
  /\ bounded = FALSE
  /\ until = 0
  /\ ran = {}
  /\ calls = 0
  /\ atCall = State
  /\ err = "none"
  /\ pres = NewPriorityResource(1)
  /\ play = NewPlayground
  /\ \E K \in BufCapacities : buf = NewBuffer(K, 0)
  /\ \E K \in StoreCapacities : store = NewStore(K)

\* The three primitives share no state: a behaviour is about one of them.
ResourceUntouched ==
  mode = "idle" /\ \A p \in 1..Len(procs) : procs[p].state = "Scheduled"

ResourceOnly == buf.hist = <<>> /\ store.hist = <<>>

BufferOnly == ResourceUntouched /\ store.hist = <<>>

StoreOnly == ResourceUntouched /\ buf.hist = <<>>

\* Processes that wait for the Resource, the Buffer or the Store, and
\* cancel() called on them.
NextCancel ==
  \/ ResourceOnly /\ \E p \in 1..Len(procs) : Cancel(p)
  \/ ResourceOnly /\ Run
  \/ ResourceOnly /\ \E u \in Arrival : RunAhead(u)
  \/ Step
  \/ Return
  \/ BufferOnly /\ \E a \in WaitAmounts : Put(a)
  \/ BufferOnly /\ \E a \in WaitAmounts : Get(a)
  \/ BufferOnly /\ \E p \in 1..Len(buf.st) : CancelBufUser(p)
  \/ StoreOnly /\ \E k \in Kinds : PutItem(k)
  \/ StoreOnly /\ \E f \in Filters : GetItem(f)
  \/ StoreOnly /\ \E p \in 1..Len(store.st) : CancelStoreUser(p)

SpecCancel == InitCancel /\ [][NextCancel]_vars

\* The Buffer used by processes that each make one put() or get().
InitBuf ==
  /\ InitSim
  /\ capacity = 1
  /\ \E K \in BufCapacities, l0 \in BufLevels : buf = NewBuffer(K, l0)
  /\ \E K \in StoreCapacities : store = NewStore(K)

NextBuf ==
  \/ \E a \in Amounts : Put(a)
  \/ \E a \in Amounts : Get(a)
  \/ \E p \in 1..Len(buf.st) : CancelBufUser(p)

SpecBuf == InitBuf /\ [][NextBuf]_vars

\* The Store used by processes that each make one put() or get().
NextStore ==
  \/ \E k \in Kinds : PutItem(k)
  \/ \E f \in Filters : GetItem(f)
  \/ \E p \in 1..Len(store.st) : CancelStoreUser(p)

InitStore ==
  /\ InitSim
  /\ capacity = 1
  /\ \E K \in BufCapacities : buf = NewBuffer(K, 0)
  /\ \E K \in StoreSizes : store = NewStore(K)

SpecStore == InitStore /\ [][NextStore]_vars

\* The PriorityResource used by callers that release what they were granted.
InitPR ==
  /\ InitKernel
  /\ capacity = 1
  /\ \E K \in BufCapacities : buf = NewBuffer(K, 0)
  /\ \E K \in StoreCapacities : store = NewStore(K)
  /\ \E K \in Capacities : pres = NewPriorityResource(K)
  /\ play = NewPlayground

NextPR ==
  \/ \E prio \in Priorities : Acquire(prio)
  \/ \E id \in 1..MaxCalls : GiveBack(id)

SpecPR == InitPR /\ [][NextPR]_vars

\* Requests of three priorities, preemptive or not, on one Resource.
NextPre ==
  \/ \E prio \in TriagePriorities, pre \in BOOLEAN :
        Process(prio, pre, 10, "retry")
  \/ Run
  \/ Step
  \/ Return

SpecPre == Init /\ [][NextPre]_vars

\* The two playgrounds and their buttons.
NextPlay ==
  \/ \E c \in Components : RunSimulation(c)
  \/ Imported
  \/ Timeout
  \/ ResetButton

SpecPlay == InitSched /\ [][NextPlay]_vars

(***************************************************************************)
(* Properties of the scheduler (SpecSched).                                *)
(***************************************************************************)
KeyLess(f, e) ==
  \/ f.time < e.time
  \/ f.time = e.time /\ f.priority < e.priority
  \/ f.time = e.time /\ f.priority = e.priority /\ f.seq < e.seq

C4_ClockOnlyAdvancesToEvents ==
  [][/\ now' >= now
     /\ (now' # now) => (/\ Len(trace') = Len(trace) + 1
                         /\ now' = trace'[Len(trace')].time)]_vars

C5_WitnessNoEvent ==
  mode = "returned" /\ bounded /\ ran = {} /\ now = until /\ until > 0

AllProcs == 1..Len(procs)

\* The processes that have been granted a slot and have neither released it
\* nor been evicted from it.
HoldingProcs == {p \in AllProcs : procs[p].pc = "treating"}

Pids(q) == {q[i].pid : i \in 1..Len(q)}

LogIx == 1..Len(log)

Requesting(q) ==
  /\ Len(trace') = Len(trace) + 1
  /\ trace'[Len(trace')].pid = q
  /\ trace'[Len(trace')].kind \in {"start", "interrupt"}
  /\ trace'[Len(trace')].tok = procs[q].tok
  /\ procs[q].state \notin {"Completed", "Cancelled"}

\* C7: a holder is evicted only by a preemptive request whose priority value
\* is strictly smaller than the holder's; and a preemptive request that finds
\* the Resource full with no holder of strictly larger priority value evicts
\* nobody and is queued.
C7_EvictsOnlyStrictlyLowerPrecedence ==
  [][/\ \A v \in AllProcs :
          (procs[v].pc = "treating" /\ procs'[v].pc = "preempted") =>
            \E q \in Pids(holders') \ Pids(holders) :
              procs[q].pre /\ procs[q].prio < procs[v].prio
     /\ \A q \in AllProcs :
          (/\ Requesting(q)
           /\ procs[q].pre
           /\ inUse >= capacity
           /\ \A i \in 1..Len(holders) : holders[i].prio <= procs[q].prio)
            => /\ holders' = holders
               /\ q \in Pids(waitQueue')]_vars

\* A preemptive request has evicted a holder, and another preemptive request
\* waits in the queue behind a holder of its own priority.
C7_Witness ==
  /\ \E i \in LogIx : log[i].e = "evict"
  /\ \E i \in 1..Len(waitQueue) : \E j \in 1..Len(holders) :
        waitQueue[i].pre /\ holders[j].prio = waitQueue[i].prio

\* The ER scenario: capacity 1, a minor patient needing 10 arrives at 0, a
\* critical (preemptive) patient needing 3 arrives at 3, both are done.
ERScenario ==
  /\ capacity = 1
  /\ Len(procs) = 2
  /\ procs[1].prio = 10 /\ procs[1].work = 10
  /\ procs[2].prio = 0 /\ procs[2].pre /\ procs[2].work = 3
  /\ \E i \in 1..Len(trace) :
        trace[i].kind = "start" /\ trace[i].pid = 1 /\ trace[i].time = 0
  /\ \E i \in 1..Len(trace) :
        trace[i].kind = "start" /\ trace[i].pid = 2 /\ trace[i].time = 3
  /\ \A p \in AllProcs : procs[p].state = "Completed"

\* C8: in the ER scenario the minor patient is interrupted at 3, the critical
\* patient is granted at 3, and the minor patient, having requested again,
\* resumes with 7 units left and completes at 13.
C8_PreemptedResumesAndEndsAt13 ==
  ERScenario =>
    /\ \E i \in LogIx : log[i].e = "interrupt" /\ log[i].pid = 1 /\ log[i].t = 3
    /\ \E i \in LogIx : log[i].e = "grant" /\ log[i].pid = 2 /\ log[i].t = 3
    /\ \E i \in LogIx : log[i].e = "resume" /\ log[i].pid = 1 /\ log[i].rem = 7
    /\ \A i \in LogIx : (log[i].e = "done" /\ log[i].pid = 1) => log[i].t = 13

\* Three processes of one priority, not preemptive, each holding for 5, have
\* been created at time 0 on a Resource of capacity 1 and have completed.
QueueScenario ==
  /\ capacity = 1
  /\ Len(procs) = 3
  /\ \A p \in AllProcs :
        /\ procs[p].work = 5
        /\ procs[p].prio = procs[1].prio
        /\ ~procs[p].pre
        /\ procs[p].state = "Completed"
  /\ \A i \in 1..Len(trace) : trace[i].kind = "start" => trace[i].time = 0

TimesOf(e, p) == {log[i].t : i \in {k \in LogIx : log[k].e = e /\ log[k].pid = p}}

\* C9: in that scenario the processes are granted in creation order at 0, 5
\* and 10 and release at 5, 10 and 15: each at the instant the one before it
\* releases.
C9_SequentialGrants ==
  QueueScenario =>
    \A p \in AllProcs :
      /\ TimesOf("grant", p) = {5 * (p - 1)}
      /\ TimesOf("release", p) = {5 * p}
      /\ p > 1 => TimesOf("grant", p) = TimesOf("release", p - 1)

C9_Witness == QueueScenario /\ now = 15 /\ TimesOf("grant", 3) = {10}

WaitsBefore(w, v) ==
  \/ w.prio < v.prio
  \/ w.prio = v.prio /\ w.arr < v.arr

HistIx == 1..Len(buf.hist)

\* What the Buffer noted in the step being taken.
NewHistIx == (Len(buf.hist) + 1)..Len(buf.hist')

RECURSIVE DoneTotal(_, _)
DoneTotal(op, n) ==
  IF n = 0 THEN 0
  ELSE DoneTotal(op, n - 1)
       + (IF buf.hist[n].op = op /\ buf.hist[n].ev = "done"
            THEN buf.hist[n].amt ELSE 0)

\* C11: 0 <= level <= capacity, and level is the initial level plus the
\* amounts of the completed puts minus the amounts of the completed gets.
C11_LevelWithinCapacityAndBalanced ==
  /\ 0 <= buf.level
  /\ buf.level <= buf.capacity
  /\ buf.level = buf.initial + DoneTotal("put", Len(buf.hist))
                             - DoneTotal("get", Len(buf.hist))

\* A put and a get have completed, one of them after waiting, and another
\* request still waits.
C11_Witness ==
  /\ \E i, j \in HistIx :
        /\ i < j
        /\ buf.hist[i].ev = "queued"
        /\ buf.hist[j].ev = "done" /\ buf.hist[j].pid = buf.hist[i].pid
  /\ \E i \in HistIx : buf.hist[i].ev = "done" /\ buf.hist[i].op = "put"
  /\ \E i \in HistIx : buf.hist[i].ev = "done" /\ buf.hist[i].op = "get"
  /\ buf.putQueue \o buf.getQueue # <<>>

\* C12: when a get is satisfied no get issued before it is left waiting, and
\* when a put is satisfied no put issued before it is left waiting.
C12_SatisfiedInIssueOrder ==
  [][\A i \in NewHistIx :
       buf.hist'[i].ev = "done" =>
         /\ buf.hist'[i].op = "get" =>
              \A j \in 1..Len(buf.getQueue') :
                buf.getQueue'[j].pid > buf.hist'[i].pid
         /\ buf.hist'[i].op = "put" =>
              \A j \in 1..Len(buf.putQueue') :
                buf.putQueue'[j].pid > buf.hist'[i].pid]_vars

\* C12 among the waiting requests only: a waiting get (put) is satisfied
\* only when it is the earliest issued of the waiting gets (puts).
C12_QueuedServedInIssueOrder ==
  [][/\ \A j \in 1..Len(buf.getQueue) :
          buf.getQueue[j].pid \notin Pids(buf.getQueue') =>
            \/ buf.st'[buf.getQueue[j].pid] = "Cancelled"
            \/ \A k \in 1..Len(buf.getQueue') :
                 buf.getQueue'[k].pid > buf.getQueue[j].pid
     /\ \A j \in 1..Len(buf.putQueue) :
          buf.putQueue[j].pid \notin Pids(buf.putQueue') =>
            \/ buf.st'[buf.putQueue[j].pid] = "Cancelled"
            \/ \A k \in 1..Len(buf.putQueue') :
                 buf.putQueue'[k].pid > buf.putQueue[j].pid]_vars

\* C13: a put of more than the capacity is answered with an error at once:
\* it is not queued, the level and both queues stay as they are, and the
\* calling process is not left waiting.
C13_PutBeyondCapacityFails ==
  [][\A i \in NewHistIx :
       (buf.hist'[i].op = "put" /\ buf.hist'[i].amt > buf.capacity) =>
         /\ buf.hist'[i].ev = "error"
         /\ buf.st'[buf.hist'[i].pid] = "Failed"
         /\ buf.level' = buf.level
         /\ buf.putQueue' = buf.putQueue
         /\ buf.getQueue' = buf.getQueue]_vars

\* A put of more than the capacity has been refused while the Buffer held
\* something and a request was waiting.
C13_Witness ==
  /\ \E i \in HistIx :
        /\ buf.hist[i].op = "put"
        /\ buf.hist[i].amt > buf.capacity
        /\ buf.hist[i].ev = "error"
        /\ \E j \in 1..(i - 1) : buf.hist[j].ev = "queued"
  /\ buf.level > 0

(***************************************************************************)
(* Properties of the Store (SpecStore).                                    *)
(***************************************************************************)
SHistIx == 1..Len(store.hist)

NewSHistIx == (Len(store.hist) + 1)..Len(store.hist')

\* C14: the number of items in the Store is between 0 and its capacity.
C14_SizeWithinCapacity ==
  /\ 0 <= Len(store.items)
  /\ Len(store.items) <= store.capacity

\* The Store is full, a put waits, a get with a filter and a get without
\* have been made and a process has been cancelled.
C14_Witness ==
  /\ Len(store.items) = store.capacity
  /\ store.putQueue # <<>>
  /\ \E i \in SHistIx : store.hist[i].op = "get" /\ store.hist[i].what # "any"
  /\ \E i \in SHistIx : store.hist[i].op = "cancel"

\* C15: every get that is resolved receives an item that was in the store,
\* that its filter accepts, and before which no item accepted by the filter
\* had been inserted; without filter it is the earliest inserted item.
C15_GetResolvesToFirstMatch ==
  \A n \in SHistIx :
    (store.hist[n].op = "get" /\ store.hist[n].ev = "done") =>
      \E i \in 1..Len(store.hist[n].had) :
        /\ store.hist[n].had[i].id = store.hist[n].item
        /\ store.hist[n].what \in {"any", store.hist[n].had[i].kind}
        /\ \A j \in 1..(i - 1) :
             store.hist[n].what \notin {"any", store.hist[n].had[j].kind}
        /\ store.hist[n].what = "any" => i = 1
        /\ \E m \in 1..(n - 1) :
             /\ store.hist[m].op = "put" /\ store.hist[m].ev = "done"
             /\ store.hist[m].item = store.hist[n].item
             /\ store.hist[m].what = store.hist[n].had[i].kind

\* A get with a filter has received the second of two stored items, the
\* first of which its filter does not accept.
C15_Witness ==
  \E n \in SHistIx :
    /\ store.hist[n].op = "get" /\ store.hist[n].ev = "done"
    /\ store.hist[n].what # "any"
    /\ Len(store.hist[n].had) = 2
    /\ store.hist[n].had[1].kind # store.hist[n].what
    /\ store.hist[n].item = store.hist[n].had[2].id

\* The positions in the get queue of the requests that still wait when the
\* entry n of the history is written in the step, and that accept what.
StillWaitingAt(n, what) ==
  {k \in 1..Len(store.getQueue) :
     /\ store.getQueue[k].filter \in {"any", what}
     /\ \A m \in NewSHistIx :
          (m < n /\ store.hist'[m].op = "get" /\ store.hist'[m].ev = "done")
            => store.hist'[m].pid # store.getQueue[k].pid}

\* C16: when an item is added while several waiting gets accept it, the one
\* that arrived first receives it and the others keep waiting: they are not
\* served by it, and stay in the queue unless an item added later in the
\* same step serves them.
C16_FirstArrivedMatchingGetWins ==
  [][\A n \in NewSHistIx :
       (store.hist'[n].op = "put" /\ store.hist'[n].ev = "done") =>
         LET W == StillWaitingAt(n, store.hist'[n].what)
         IN  \A k \in W :
               (\A j \in W : k <= j)
                 => /\ \E m \in NewSHistIx :
                         /\ m > n
                         /\ store.hist'[m].op = "get" /\ store.hist'[m].ev = "done"
                         /\ store.hist'[m].pid = store.getQueue[k].pid
                         /\ store.hist'[m].item = store.hist'[n].item
                    /\ \A j \in W \ {k} :
                         \/ store.getQueue[j].pid \in Pids(store.getQueue')
                         \/ \E m, n2 \in NewSHistIx :
                              /\ n < n2 /\ n2 < m
                              /\ store.hist'[n2].op = "put"
                              /\ store.hist'[n2].ev = "done"
                              /\ store.hist'[m].op = "get"
                              /\ store.hist'[m].ev = "done"
                              /\ store.hist'[m].pid = store.getQueue[j].pid
                              /\ store.hist'[m].item = store.hist'[n2].item]_vars

\* An item accepted by two waiting gets with different filters was added:
\* the first has received it and the second still waits.
C16_Witness ==
  \E n, m \in SHistIx :
    /\ store.hist[n].op = "get" /\ store.hist[n].ev = "queued"
    /\ store.hist[m].op = "get" /\ store.hist[m].ev = "done"
    /\ store.hist[m].pid = store.hist[n].pid
    /\ \E k \in 1..Len(store.getQueue) :
         /\ store.getQueue[k].pid > store.hist[n].pid
         /\ store.getQueue[k].filter # store.hist[n].what
         /\ \E j \in SHistIx :
              /\ store.hist[j].item = store.hist[m].item
              /\ store.hist[j].op = "put"
              /\ store.getQueue[k].filter \in {"any", store.hist[j].what}

(***************************************************************************)
(* Properties of cancellation.                                             *)
(***************************************************************************)
NewLogIx == (Len(log) + 1)..Len(log')

\* C17: once cancel() has been called on a process no step of its body is
\* executed any more (what is queued for it changes nothing of it), and a
\* run() without bound over endlessly looping processes that are cancelled
\* by callbacks returns.
C17_NoStepAfterCancel ==
  /\ [][\A p \in AllProcs :
          procs[p].state = "Cancelled" =>
            /\ procs'[p] = procs[p]
            /\ \A n \in NewLogIx : log'[n].pid # p]_vars
  /\ (mode = "running" /\ ~bounded) ~> (mode = "returned")

\* The documented example: a process looping with timeout(10) and a callback
\* at time 50 that cancels it; run() has returned at time 50 with the queue
\* empty, the process has run at 0, 10, 20, 30 and 40 only, and its timer
\* for time 50 was popped after the callback.
C17_Witness ==
  /\ mode = "returned" /\ ~bounded /\ queue = {} /\ now = 50
  /\ Len(procs) = 1 /\ procs[1].work = 10 /\ procs[1].state = "Cancelled"
  /\ {log[n].t : n \in {m \in LogIx : log[m].e = "step"}} = {0, 10, 20, 30, 40}
  /\ \E i, j \in 1..Len(trace) :
       /\ i < j
       /\ trace[i].kind = "cancel" /\ trace[i].time = 50
       /\ trace[j].kind = "timer" /\ trace[j].time = 50 /\ trace[j].pid = 1

\* The processes that wait for the Resource and are alive, and the order in
\* which they wait: by priority, then by the time they were queued.
AliveWaiters ==
  {p \in AllProcs : procs[p].pc = "waiting" /\ procs[p].state # "Cancelled"}

QueuedAt(p) ==
  CHOOSE n \in LogIx :
    /\ log[n].e = "queue" /\ log[n].pid = p
    /\ \A m \in LogIx : (log[m].e = "queue" /\ log[m].pid = p) => m <= n

WaitsAhead(p, q) ==
  \/ procs[p].prio < procs[q].prio
  \/ procs[p].prio = procs[q].prio /\ QueuedAt(p) < QueuedAt(q)

\* The processes whose put (get) waits in the Buffer and that are alive.
BufWaiters(op) ==
  {p \in 1..Len(buf.st) :
     /\ buf.st[p] = "Suspended"
     /\ \E n \in HistIx : buf.hist[n].pid = p /\ buf.hist[n].op = op}

\* The processes whose put (get) waits in the Store and that are alive.
StoreWaiters(op) ==
  {p \in 1..Len(store.st) :
     /\ store.st[p] = "Suspended"
     /\ \E n \in SHistIx : store.hist[n].pid = p /\ store.hist[n].op = op}

StoreAsked(p) ==
  store.hist[CHOOSE n \in SHistIx :
               store.hist[n].pid = p /\ store.hist[n].ev = "queued"].what

\* C18, Resource: a cancelled process is not in the wait queue and is never
\* granted, and a release() while processes that are alive wait grants the
\* one of them that waits ahead of the others.
C18_Resource ==
  /\ \A p \in AllProcs :
       procs[p].state = "Cancelled" =>
         /\ p \notin Pids(waitQueue)
         /\ p \notin Pids(holders') \ Pids(holders)
         /\ \A n \in NewLogIx : ~(log'[n].e = "grant" /\ log'[n].pid = p)
  /\ ((\E n \in NewLogIx : log'[n].e = "release") /\ AliveWaiters # {}) =>
       \E q \in AliveWaiters :
         /\ q \in Pids(holders') \ Pids(holders)
         /\ \A r \in AliveWaiters \ {q} : WaitsAhead(q, r)

\* C18, Buffer: a cancelled process is in neither queue and its request is
\* never satisfied, and a put() (get()) that is satisfied at once satisfies
\* the earliest waiting get (put) of a process that is alive, if it fits.
C18_Buffer ==
  /\ \A p \in 1..Len(buf.st) :
       buf.st[p] = "Cancelled" =>
         /\ p \notin Pids(buf.putQueue) \cup Pids(buf.getQueue)
         /\ \A n \in NewHistIx :
              ~(buf.hist'[n].ev = "done" /\ buf.hist'[n].pid = p)
  /\ \A n \in NewHistIx :
       (buf.hist'[n].pid = Len(buf.st) + 1 /\ buf.hist'[n].ev = "done") =>
         LET other == IF buf.hist'[n].op = "put" THEN "get" ELSE "put"
             W == BufWaiters(other)
             lvl == IF other = "get" THEN buf.level + buf.hist'[n].amt
                                     ELSE buf.level - buf.hist'[n].amt
         IN  \A q \in W :
               (/\ \A r \in W : q <= r
                /\ \E m \in HistIx :
                     /\ buf.hist[m].pid = q /\ buf.hist[m].ev = "queued"
                     /\ IF other = "get"
                          THEN buf.hist[m].amt <= lvl
                          ELSE buf.hist[m].amt <= buf.capacity - lvl)
                 => \E k \in NewHistIx :
                      /\ buf.hist'[k].pid = q /\ buf.hist'[k].ev = "done"
                      /\ buf.hist'[k].op = other

\* C18, Store: a cancelled process is in neither queue and its request is
\* never satisfied; a put() that adds an item gives it to the earliest
\* waiting get of a process that is alive whose filter accepts it, and a
\* get() that takes an item lets the earliest waiting put of a process that
\* is alive go through.
C18_Store ==
  /\ \A p \in 1..Len(store.st) :
       store.st[p] = "Cancelled" =>
         /\ p \notin Pids(store.putQueue) \cup Pids(store.getQueue)
         /\ \A n \in NewSHistIx :
              ~(store.hist'[n].ev = "done" /\ store.hist'[n].pid = p)
  /\ \A n \in NewSHistIx :
       (store.hist'[n].pid = Len(store.st) + 1 /\ store.hist'[n].ev = "done") =>
         IF store.hist'[n].op = "put"
           THEN LET W == {p \in StoreWaiters("get") :
                            StoreAsked(p) \in {"any", store.hist'[n].what}}
                IN  \A q \in W :
                      (\A r \in W : q <= r) =>
                        \E k \in NewSHistIx :
                          /\ store.hist'[k].pid = q
                          /\ store.hist'[k].ev = "done"
                          /\ store.hist'[k].item = store.hist'[n].item
           ELSE LET W == StoreWaiters("put")
                IN  \A q \in W :
                      (\A r \in W : q <= r) =>
                        \E k \in NewSHistIx :
                          /\ store.hist'[k].pid = q
                          /\ store.hist'[k].ev = "done"
                          /\ store.hist'[k].op = "put"

\* C18: cancel() on a process that waits in a Resource, Buffer or Store
\* queue removes its request: the process is never granted afterwards, and
\* the next release, put or get serves the next waiter that is alive.
C18_CancelledWaiterIsSkipped ==
  [][C18_Resource /\ C18_Buffer /\ C18_Store]_vars

\* Resource: the first customer held the slot, the second was cancelled
\* while it waited, and the release of the first has granted the third.
C18_Witness ==
  /\ procs[2].state = "Cancelled" /\ procs[2].pc = "waiting"
  /\ procs[1].prio = procs[2].prio /\ procs[2].prio = procs[3].prio
  /\ \E i, j, k \in LogIx :
       /\ i < j /\ j < k
       /\ log[i].e = "queue" /\ log[i].pid = 2
       /\ log[j].e = "release" /\ log[j].pid = 1
       /\ log[k].e = "grant" /\ log[k].pid = 3

\* Buffer: a get was cancelled while it waited and the put that followed
\* has satisfied the get that waited behind it.
C18_WitnessBuffer ==
  \E i, j, k \in HistIx :
    /\ i < j /\ j < k
    /\ buf.hist[i].op = "cancel" /\ buf.hist[i].pid = 1
    /\ buf.hist[1].op = "get" /\ buf.hist[1].ev = "queued"
    /\ buf.hist[j].op = "put" /\ buf.hist[j].ev = "done"
    /\ buf.hist[k].op = "get" /\ buf.hist[k].ev = "done" /\ buf.hist[k].pid = 2
    /\ buf.hist[1].amt > buf.hist[j].amt

\* Store: a get was cancelled while it waited and the item put afterwards,
\* which its filter accepts, has gone to the get that waited behind it.
C18_WitnessStore ==
  \E i, j, k \in SHistIx :
    /\ i < j /\ j < k
    /\ store.hist[i].op = "cancel" /\ store.hist[i].pid = 1
    /\ store.hist[1].op = "get" /\ store.hist[1].ev = "queued"
    /\ store.hist[j].op = "put" /\ store.hist[j].ev = "done"
    /\ store.hist[1].what \in {"any", store.hist[j].what}
    /\ store.hist[k].op = "get" /\ store.hist[k].ev = "done"
    /\ store.hist[k].pid = 2 /\ store.hist[k].item = store.hist[j].item

\* C19: cancel() on a process that holds a slot of the Resource leaves
\* inUse, the holders and the wait queue as they are, and the cancelled
\* process stays a holder on every later step that does not evict it.
C19_CancelKeepsSlot ==
  [][\A p \in AllProcs :
       /\ (/\ p \in Pids(holders)
           /\ procs[p].state # "Cancelled"
           /\ procs'[p].state = "Cancelled")
            => /\ inUse' = inUse
               /\ holders' = holders
               /\ waitQueue' = waitQueue
       /\ (p \in Pids(holders) /\ procs[p].state = "Cancelled")
            => \/ p \in Pids(holders') /\ inUse' >= 1
               \/ \E n \in NewLogIx : log'[n].e = "evict" /\ log'[n].pid = p]_vars

\* A holder was cancelled while another process waited; run() has returned
\* with nothing left to execute, the slot still counted and the other
\* process still waiting.
C19_Witness ==
  /\ mode = "returned" /\ queue = {}
  /\ capacity = 1 /\ inUse = 1
  /\ \E p \in Pids(holders) : procs[p].state = "Cancelled"
  /\ \E q \in Pids(waitQueue) : procs[q].state = "Suspended"

\* C20: isAlive() is true exactly in the states Scheduled, Running and
\* Suspended; a process that is Completed or Cancelled stays so on every
\* step, and cancel() on such a process changes nothing.
C20_AliveAndTerminalStates ==
  /\ [](\A p \in AllProcs :
         /\ procs[p].state \in
              {"Scheduled", "Running", "Suspended", "Completed", "Cancelled"}
         /\ IsAlive(State, p) <=>
              procs[p].state \in {"Scheduled", "Running", "Suspended"}
         /\ procs[p].state \in {"Completed", "Cancelled"} =>
              CancelCall(State, p) = State)
  /\ [][\A p \in AllProcs :
          procs[p].state \in {"Completed", "Cancelled"} =>
            procs'[p].state = procs[p].state]_vars

\* One process was created and one run() has completed it; cancel() was
\* then called on it and it is still Completed.
C20_Witness ==
  /\ Len(procs) = 1 /\ procs[1].state = "Completed"
  /\ mode = "returned" /\ calls = 3
  /\ atCall.procs[1].state = "Scheduled"

\* A process was cancelled while it waited, and run() has returned with
\* nothing left to execute and the process still Cancelled.
C20_WitnessCancelled ==
  /\ mode = "returned" /\ queue = {}
  /\ \E p \in AllProcs :
       /\ procs[p].state = "Cancelled" /\ procs[p].pc = "waiting"
       /\ ~IsAlive(State, p)

(***************************************************************************)
(* Properties of process creation, errors and time.                        *)
(***************************************************************************)

\* C21: process() executes no step of the body: nothing is logged, the new
\* process is Scheduled and its first step is one more event at the current
\* time; the first steps of processes created at the same instant are
\* executed in the order of creation.
C21_FirstStepIsQueued ==
  /\ [][Len(procs') = Len(procs) + 1 =>
          LET p == Len(procs')
          IN  /\ log' = log
              /\ now' = now
              /\ procs'[p].state = "Scheduled" /\ procs'[p].pc = "new"
              /\ \A q \in AllProcs : procs'[q] = procs[q]
              /\ inUse' = inUse /\ holders' = holders /\ waitQueue' = waitQueue
              /\ \E e \in queue' \ queue :
                   /\ queue' = queue \cup {e}
                   /\ e.kind = "start" /\ e.pid = p /\ e.time = now]_vars
  /\ [](\A i, j \in 1..Len(trace) :
          (/\ trace[i].kind = "start" /\ trace[j].kind = "start"
           /\ trace[i].time = trace[j].time
           /\ trace[i].pid < trace[j].pid) => i < j)

\* Two processes were created at time 0, the second with the more urgent
\* request; both have taken their first step at time 0, the first created
\* first.
C21_Witness ==
  /\ Len(procs) >= 2
  /\ \E i, j \in 1..Len(trace) :
       /\ i < j
       /\ trace[i].kind = "start" /\ trace[i].time = 0
       /\ trace[j].kind = "start" /\ trace[j].time = 0
       /\ trace[i].pid < trace[j].pid
       /\ procs[trace[i].pid].prio > procs[trace[j].pid].prio
       /\ \E n, m \in LogIx :
            /\ n < m
            /\ log[n].pid = trace[i].pid /\ log[m].pid = trace[j].pid
            /\ \A k \in 1..(m - 1) : log[k].pid # trace[j].pid

\* C22: schedule(t, ...) with t < now raises InvalidTimeError, adds no
\* event, and leaves the clock, the queue and the sequence counter as they
\* are; with t >= now it raises nothing and adds one event at time t.
C22_ScheduleInThePastFails ==
  [][\A t \in SchedTimes, prio \in Priorities, d \in ChildDelays,
       kind \in {"cb", "spawn"} :
       Schedule(t, prio, kind, d) =>
         /\ now' = now
         /\ t < now => /\ err' = "InvalidTimeError"
                        /\ queue' = queue
                        /\ nextSeq' = nextSeq
                        /\ trace' = trace
         /\ t >= now => /\ err' = "none"
                         /\ \E e \in queue' \ queue :
                              /\ queue' = queue \cup {e}
                              /\ e.time = t /\ e.priority = prio
                              /\ e.seq = nextSeq]_vars

\* After a run() that ended at time 60, schedule(10, ...) has failed and the
\* queue is still empty.
C22_Witness ==
  /\ err = "InvalidTimeError"
  /\ mode = "idle"
  /\ now = 60
  /\ queue = {}
  /\ Len(trace) = 1 /\ nextSeq = 2

\* schedule(60, ...) called at time 60 has been accepted.
C22_WitnessNow ==
  /\ err = "none" /\ mode = "idle" /\ now = 60
  /\ \E e \in queue : e.time = 60

\* C23: the step of a process that throws ends the run() call that was
\* executing it with that error: the process is Cancelled, the clock stays
\* at the time of the step, and the call executes no further event.
C23_UncaughtErrorLeavesRun ==
  /\ [][/\ \A n \in NewLogIx :
            log'[n].e = "throw" =>
              /\ mode = "running" /\ mode' = "raised"
              /\ err' = "Error"
              /\ procs'[log'[n].pid].state = "Cancelled"
              /\ now' = log'[n].t
              /\ \E e \in queue :
                   e.pid = log'[n].pid /\ e.kind = "timer" /\ e.time = now'
        /\ (mode = "raised" => trace' = trace)
        /\ \A p \in AllProcs :
             procs[p].pc = "threw" => procs'[p].state = "Cancelled"]_vars
  /\ [](mode = "raised" =>
          /\ err = "Error"
          /\ \E p \in AllProcs :
               /\ procs[p].pc = "threw" /\ procs[p].state = "Cancelled"
               /\ trace[Len(trace)].pid = p)

\* run(100) was ended at time 5 by a process that threw there, while a
\* process using the Resource still has its timer queued for time 10.
C23_Witness ==
  /\ mode = "raised" /\ err = "Error" /\ bounded /\ until = 100
  /\ now = 5
  /\ \E p \in AllProcs : procs[p].pc = "threw" /\ procs[p].state = "Cancelled"
  /\ \E e \in queue : e.kind = "timer" /\ e.time = 10

\* C24: reset() cancels every process that is alive, the catch block of
\* each that had started being run, and leaves the queue empty and the
\* clock at 0; a process that exists at a reset() is not alive after it, its
\* record never changes again and nothing more is logged for it.
C24_ResetCancelsAndClears ==
  [][/\ Reset =>
          /\ queue' = {}
          /\ now' = 0
          /\ Len(procs') = Len(procs)
          /\ \A p \in AllProcs :
               /\ procs'[p].state \in {"Completed", "Cancelled"}
               /\ IsAlive(State, p) =>
                    /\ procs'[p].state = "Cancelled"
                    /\ procs[p].pc # "new" =>
                         \E n \in NewLogIx :
                           log'[n].e = "cleanup" /\ log'[n].pid = p
               /\ ~IsAlive(State, p) =>
                    \A n \in NewLogIx : log'[n].pid # p
     /\ \A p \in AllProcs :
          procs[p].state \in {"Completed", "Cancelled"} =>
            /\ procs'[p] = procs[p]
            /\ \A n \in NewLogIx : log'[n].pid # p]_vars

\* The documented example: run(50) over a process that loops every 10, then
\* reset(): its catch block has run at time 50, the queue is empty and the
\* clock is 0 again.
C24_Witness ==
  /\ mode = "idle" /\ now = 0 /\ queue = {} /\ Len(trace) = 6
  /\ Len(procs) = 1
  /\ procs[1].handler = "loop" /\ procs[1].work = 10
  /\ procs[1].state = "Cancelled"
  /\ \E n \in LogIx : log[n].e = "cleanup" /\ log[n].pid = 1 /\ log[n].t = 50

\* Two processes that clean up, reset at time 3 while the first held the
\* Resource and the second waited: the release() in the catch block of the
\* first has granted the second, whose timer was queued and then cleared.
C24_WitnessCleanup ==
  /\ mode = "idle" /\ now = 0 /\ queue = {}
  /\ Len(procs) = 2
  /\ \A p \in AllProcs :
       procs[p].handler = "cleanup" /\ procs[p].state = "Cancelled"
  /\ \E n, m \in LogIx :
       /\ n < m
       /\ log[n].e = "cleanup" /\ log[n].pid = 1 /\ log[n].t = 3
       /\ log[m].e = "grant" /\ log[m].pid = 2 /\ log[m].t = 3

\* The log entries of process p with label e, and the time of its k-th poll.
EntriesOf(p, e) == {n \in LogIx : log[n].pid = p /\ log[n].e = e}

PollsBefore(p, n) == Cardinality({m \in EntriesOf(p, "poll") : m <= n})

C25_WitnessResumed ==
  \E p \in AllProcs :
    /\ procs[p].handler = "waitFor" /\ procs[p].work = 2 /\ procs[p].cond = 3
    /\ procs[p].start = 0 /\ procs[p].polls = 2
    /\ \E n \in EntriesOf(p, "resume") : log[n].t = 4

LastStepTime(p) ==
  log[CHOOSE n \in LogIx :
        log[n].pid = p /\ \A m \in LogIx : log[m].pid = p => m <= n].t

Delay(p) == IF procs[p].pc = "treating" THEN procs[p].remaining ELSE procs[p].work

\* C27: a process that yielded a delay d at time t is resumed by one event,
\* at time t + d, and its next step is taken at that time; every callback
\* and every process step is executed with now equal to the time of its
\* event.
C27_DelayEndsAtNowPlusD ==
  /\ [](\A p \in AllProcs :
         (procs[p].state = "Suspended" /\ procs[p].pc \in {"looping", "treating"})
           => \E e \in queue :
                /\ e.kind = "timer" /\ e.pid = p /\ e.tok = procs[p].tok
                /\ e.time = LastStepTime(p) + Delay(p)
                /\ \A f \in queue \ {e} : ~(f.pid = p /\ f.tok = procs[p].tok))
  /\ [][trace' # trace =>
          LET e == trace'[Len(trace')]
          IN  /\ now' = e.time
              /\ \A n \in NewLogIx : log'[n].t = e.time
              /\ (e.kind = "timer" /\ Resumes(State, e)) =>
                   /\ e.time = LastStepTime(e.pid) + Delay(e.pid)
                   /\ \E n \in NewLogIx : log'[n].pid = e.pid]_vars

\* A process that yielded timeout(0) at time 0 has taken its next step at
\* time 0, and a process granted at time 0 for 10 time units has finished
\* at time 10.
C27_Witness ==
  \E p, q \in AllProcs :
    /\ procs[p].handler = "throw" /\ procs[p].work = 0
    /\ \E n \in EntriesOf(p, "throw") : log[n].t = 0
    /\ procs[q].handler = "retry" /\ procs[q].work = 10
    /\ \E n \in EntriesOf(q, "grant") : log[n].t = 0
    /\ \E n \in EntriesOf(q, "done") : log[n].t = 10

(***************************************************************************)
(* The wait times the customers record (sim.statistics 'wait-time').       *)
(***************************************************************************)

\* const arrival = sim.now, in the first step of customer p.
ArrivalOf(p) ==
  log[CHOOSE n \in LogIx :
        log[n].pid = p /\ \A m \in LogIx : log[m].pid = p => n <= m].t

\* The customers that have been granted, and what each has recorded:
\* wait = sim.now - arrival, after yield server.request().
Recorded == {p \in AllProcs : EntriesOf(p, "grant") # {}}

WaitOf(p) == log[CHOOSE n \in EntriesOf(p, "grant") : TRUE].t - ArrivalOf(p)

\* The sum of the recorded values of the customers 1..n.
RECURSIVE WaitSum(_)
WaitSum(n) ==
  IF n = 0 THEN 0
  ELSE WaitSum(n - 1) + (IF n \in Recorded THEN WaitOf(n) ELSE 0)

\* getAverage('wait-time') = v, for a whole number v.
AverageWaitIs(v) ==
  Recorded # {} /\ WaitSum(Len(procs)) = v * Cardinality(Recorded)

\* The test of the documentation: one slot, customers arriving at 0 and at 5
\* who each hold the slot for 10, and run() has returned.
WaitTimeTest ==
  /\ mode = "returned" /\ ~bounded /\ queue = {}
  /\ capacity = 1 /\ Len(procs) = 2
  /\ ArrivalOf(1) = 0 /\ ArrivalOf(2) = 5
  /\ \A p \in AllProcs : procs[p].work = 10 /\ procs[p].state = "Completed"

\* C28: a customer's recorded wait is the time of its grant minus the time of
\* its arrival, which is 0 if it was granted on arrival and the time it
\* spent in the wait queue otherwise; in the test of the documentation the
\* average of the recorded waits is 5.
C28_AverageWaitIsFive ==
  /\ \A p \in Recorded :
       WaitOf(p) = IF EntriesOf(p, "queue") = {} THEN 0
                   ELSE log[CHOOSE n \in EntriesOf(p, "grant") : TRUE].t
                          - log[CHOOSE n \in EntriesOf(p, "queue") : TRUE].t
  /\ WaitTimeTest => AverageWaitIs(5)

\* In that test the recorded waits are 0 and 5: their sum is 5, over two
\* customers.
C28_WaitsAreZeroAndFive ==
  /\ \A p \in Recorded :
       WaitOf(p) = IF EntriesOf(p, "queue") = {} THEN 0
                   ELSE log[CHOOSE n \in EntriesOf(p, "grant") : TRUE].t
                          - log[CHOOSE n \in EntriesOf(p, "queue") : TRUE].t
  /\ WaitTimeTest =>
       /\ Recorded = {1, 2}
       /\ WaitOf(1) = 0 /\ WaitOf(2) = 5
       /\ WaitSum(2) = 5

(***************************************************************************)
(* Properties of the Resource's counters.                                  *)
(***************************************************************************)

\* Process p has been granted a slot and has called release() since its
\* last grant.
HasReleased(p) ==
  /\ EntriesOf(p, "grant") # {}
  /\ \E r \in EntriesOf(p, "release") : \A g \in EntriesOf(p, "grant") : g < r

\* Every process that was granted a slot has released it, and the run has
\* ended with nothing left to execute.
AllReleasedAndEnded ==
  /\ mode = "returned" /\ queue = {}
  /\ \A p \in AllProcs : EntriesOf(p, "grant") # {} => HasReleased(p)

\* C29: available is capacity - inUse; a Resource that has not been used has
\* inUse = 0; and when every process that was granted a slot has released
\* it and the run has ended, inUse is 0 and available is the capacity.
C29_AvailableAndIdleResource ==
  /\ Available(State) = capacity - inUse
  /\ Available(State) + inUse = capacity
  /\ log = <<>> => inUse = 0 /\ Available(State) = capacity
  /\ AllReleasedAndEnded => inUse = 0 /\ Available(State) = capacity

\* The processes that have been granted a slot and have neither released it
\* nor been preempted since.
GrantedNow ==
  {p \in AllProcs :
     \E g \in EntriesOf(p, "grant") :
        \A n \in EntriesOf(p, "release") \cup EntriesOf(p, "evict") : n < g}

\* C30: with processes that follow patientProcess (a preempted holder calls
\* release() in its handler and requests again, and every process calls
\* release() once when its treatment completes), the processes granted a
\* slot and neither released nor preempted are never more than the
\* capacity, and inUse is their number.
C30_PatternKeepsHoldersWithinCapacity ==
  /\ Cardinality(GrantedNow) <= capacity
  /\ inUse = Cardinality(GrantedNow)

\* The same count with processes whose handler requests again without
\* calling release(): there the two agree.
C30_WithoutHandlerRelease ==
  /\ GrantedNow = HoldingProcs
  /\ C30_PatternKeepsHoldersWithinCapacity

(***************************************************************************)
(* Properties of the Buffer's queues between events.                       *)
(***************************************************************************)

\* A waiting Buffer request could be satisfied at the present level.
HeadPutFits == buf.putQueue # <<>> /\ PutFits(buf, Head(buf.putQueue).amt)

HeadGetFits == buf.getQueue # <<>> /\ GetFits(buf, Head(buf.getQueue).amt)

\* C31: between events no waiting Buffer request is satisfiable: the head
\* of the put queue asks for more than capacity - level and the head of the
\* get queue asks for more than level.
C31_NoWaitingRequestIsSatisfiable == ~HeadPutFits /\ ~HeadGetFits

\* The same without any cancel(): the queues are drained at every change of
\* level.
C31_DrainedUnlessCancelled ==
  (\A n \in 1..Len(buf.hist) : buf.hist[n].op # "cancel") =>
     C31_NoWaitingRequestIsSatisfiable

(***************************************************************************)
(* Properties of the Store's items.                                        *)
(***************************************************************************)

\* The entries of the history that record the completed put of item i, and
\* the gets that received it.
PutsOf(i) ==
  {n \in SHistIx : /\ store.hist[n].op = "put" /\ store.hist[n].ev = "done"
                   /\ store.hist[n].item = i}

GetsOf(i) ==
  {n \in SHistIx : /\ store.hist[n].op = "get" /\ store.hist[n].ev = "done"
                   /\ store.hist[n].item = i}

PlacesOf(i) == {k \in 1..Len(store.items) : store.items[k].id = i}

\* The waiting gets completed and the puts completed in the step.
GetsCompleted ==
  {n \in NewSHistIx : /\ store.hist'[n].op = "get" /\ store.hist'[n].ev = "done"
                      /\ store.hist'[n].pid \in Pids(store.getQueue)}

PutsCompleted ==
  {n \in NewSHistIx : store.hist'[n].op = "put" /\ store.hist'[n].ev = "done"}

\* C32: every item put into the Store is delivered to at most one get and is
\* in items, once, until it is delivered and not after; nothing else is in
\* items; and the waiting gets completed in a step are no more than the puts
\* completed in it, each by an item of its own.
C32_ItemsNeitherDuplicatedNorLost ==
  /\ [](\A i \in 1..Len(store.st) :
          /\ Cardinality(PutsOf(i)) <= 1
          /\ Cardinality(GetsOf(i)) <= Cardinality(PutsOf(i))
          /\ Cardinality(PlacesOf(i)) =
               Cardinality(PutsOf(i)) - Cardinality(GetsOf(i)))
  /\ [][/\ Cardinality(GetsCompleted) <= Cardinality(PutsCompleted)
        /\ \A n \in GetsCompleted :
             \E m \in PutsCompleted :
                m < n /\ store.hist'[m].item = store.hist'[n].item]_vars

\* Two items were put and one of them delivered to a get that had waited
\* for it with another waiting get: the other item is still in the store.
C32_Witness ==
  /\ Len(store.items) = 1
  /\ \E i \in 1..Len(store.st) :
       /\ GetsOf(i) # {} /\ PutsOf(i) # {}
       /\ \E n \in GetsOf(i), q \in SHistIx :
            /\ q < n
            /\ store.hist[q].op = "get" /\ store.hist[q].ev = "queued"
            /\ store.hist[q].pid = store.hist[n].pid
  /\ store.getQueue # <<>>

\* The places in the put queue of the requests completed in the step.
PutsAdmitted ==
  {k \in 1..Len(store.putQueue) :
     \E n \in PutsCompleted : store.hist'[n].pid = store.putQueue[k].pid}

\* C33: between events no put waits on a Store that has room; the waiting
\* puts are completed in arrival order, each storing its own item, and one
\* is completed in every step in which a get takes an item from a Store
\* with a waiting put.
C33_NoPutWaitsWhileThereIsRoom ==
  /\ [](store.putQueue # <<>> => Len(store.items) = store.capacity)
  /\ [][/\ \A k \in PutsAdmitted : \A j \in 1..(k - 1) : j \in PutsAdmitted
        /\ \A n \in PutsCompleted :
             store.hist'[n].item = store.hist'[n].pid
        /\ ((\E n \in NewSHistIx : /\ store.hist'[n].op = "get"
                                   /\ store.hist'[n].ev = "done")
             /\ store.putQueue # <<>>) => PutsAdmitted # {}]_vars

\* A put that waited on the full Store has stored its item after a get,
\* while a later put still waits.
C33_Witness ==
  /\ store.putQueue # <<>>
  /\ \E n, m \in SHistIx :
       /\ n < m
       /\ store.hist[n].op = "put" /\ store.hist[n].ev = "queued"
       /\ store.hist[m].op = "put" /\ store.hist[m].ev = "done"
       /\ store.hist[m].pid = store.hist[n].pid
       /\ store.hist[m - 1].op = "get" /\ store.hist[m - 1].ev = "done"
       /\ \E k \in PlacesOf(store.hist[m].item) : TRUE

(***************************************************************************)
(* Properties of the PriorityResource (SpecPR).                            *)
(***************************************************************************)

\* The requests resolved in the step after having waited.
ResolvedFromQueue ==
  {n \in (Len(pres.hist) + 1)..Len(pres.hist') : pres.hist'[n].waited}

\* C34: with release() called only by a caller whose request was granted,
\* once per grant: inUse is between 0 and the capacity and is the number of
\* granted, not yet released requests; requests wait only while inUse is
\* the capacity; and the waiting request that is resolved is one of the
\* least priority value, the earliest arrived of these.
C34_PriorityResourceCounts ==
  /\ [](/\ 0 <= pres.inUse /\ pres.inUse <= pres.capacity
        /\ pres.inUse = Cardinality(pres.granted)
        /\ pres.queue # <<>> => pres.inUse = pres.capacity)
  /\ [][\A n \in ResolvedFromQueue :
          /\ \E k \in 1..Len(pres.queue) : pres.queue[k].id = pres.hist'[n].id
          /\ \A k \in 1..Len(pres.queue) :
               \/ pres.hist'[n].priority < pres.queue[k].priority
               \/ /\ pres.hist'[n].priority = pres.queue[k].priority
                  /\ pres.hist'[n].id <= pres.queue[k].id]_vars

\* A request of priority 0 was resolved ahead of a request of priority 1
\* that arrived before it and still waits, and of two waiting requests of
\* one priority the earlier was resolved.
C34_Witness ==
  /\ \E n \in 1..Len(pres.hist), k \in 1..Len(pres.queue) :
       /\ pres.hist[n].waited
       /\ pres.hist[n].priority < pres.queue[k].priority
       /\ pres.hist[n].id > pres.queue[k].id
  /\ pres.inUse = pres.capacity

C34_WitnessTie ==
  \E n \in 1..Len(pres.hist), k \in 1..Len(pres.queue) :
    /\ pres.hist[n].waited
    /\ pres.hist[n].priority = pres.queue[k].priority
    /\ pres.hist[n].id < pres.queue[k].id

(***************************************************************************)
(* Properties of the playgrounds (SpecPlay).                               *)
(***************************************************************************)

InRunSimulation == play.pc \in {"import", "sleep"}

Completed(P) ==
  \E n \in 1..Len(P.eventLog) : P.eventLog[n] = "Simulation completed"

\* C35: in the M/M/1 playground, no reset being requested, runSimulation
\* steps the simulation until sim.now >= SIM_DURATION before it logs
\* 'Simulation completed'; isRunning is true all that time and false after.
C35_SteppedToDurationWhileRunning ==
  (play.which = "MM1" /\ ~play.reset) =>
     /\ InRunSimulation => play.isRunning
     /\ Completed(play) => play.simNow >= SIM_DURATION
     /\ play.pc = "done" => ~play.isRunning /\ play.simNow >= SIM_DURATION

\* The coffee shop, which resets before it sets isRunning, is stepped to
\* its last step with isRunning true and false afterwards.
C35_CoffeeShopIsStepped ==
  play.which = "CoffeeShop" =>
     /\ InRunSimulation => play.isRunning /\ ~play.reset
     /\ play.pc = "done" => ~play.isRunning /\ play.simNow >= TotalSteps

(***************************************************************************)
(* Properties of the Resource's wait queue.                                *)
(***************************************************************************)

\* C36: between events a Resource whose wait queue is not empty has
\* inUse = capacity.
C36_NoWaiterWhileASlotIsFree == waitQueue # <<>> => inUse = capacity

\* A holder was preempted and a slot was released and granted to a waiter,
\* and a request still waits.
C36_Witness ==
  /\ waitQueue # <<>>
  /\ inUse = capacity
  /\ \E n, m \in LogIx :
       /\ log[n].e = "evict"
       /\ n < m /\ m < Len(log)
       /\ log[m].e = "release" /\ log[m + 1].e = "grant"

\* A waiting request was cancelled and another still waits.
C36_WitnessCancel ==
  /\ waitQueue # <<>>
  /\ \E p \in AllProcs :
       /\ procs[p].state = "Cancelled"
       /\ procs[p].pc = "waiting"

\* The entries written in the step that record a release() by a process
\* that held no slot when the step began.
ReleasesByNonHolder ==
  {n \in NewLogIx : log'[n].e = "release" /\ log'[n].pid \notin Pids(holders)}

\* C37: release() called by a process that holds no slot never makes inUse
\* negative and never takes a slot from a process that holds one: after it
\* inUse still counts every holder.
C37_ReleaseByNonHolderIsHarmless ==
  [][ReleasesByNonHolder # {} => inUse' >= 0 /\ inUse' >= Len(holders')]_vars

\* The same of processes that release only what they hold: inUse is never
\* negative and counts every holder.
C37_HoldersAreCounted == inUse >= 0 /\ inUse >= Len(holders)

\* The preemptive requests granted in the step without having waited.
PreemptiveGrants ==
  {n \in NewLogIx : /\ log'[n].e = "grant"
                    /\ procs[log'[n].pid].pre
                    /\ log'[n].pid \notin Pids(waitQueue)}

\* C38: a preemptive request never obtains a slot ahead of a request that
\* is already waiting with a strictly lower priority value.
C38_PreemptionDoesNotJumpTheQueue ==
  [][\A n \in PreemptiveGrants :
       \A k \in 1..Len(waitQueue) :
          waitQueue[k].prio >= procs[log'[n].pid].prio]_vars

\* The same when the only preemptive requests are those of the least
\* priority value, as in the emergency room.
C38_CriticalPreemptionOnly ==
  [][\A n \in PreemptiveGrants :
       procs[log'[n].pid].prio = 0 =>
         \A k \in 1..Len(waitQueue) :
            waitQueue[k].prio >= procs[log'[n].pid].prio]_vars

(***************************************************************************)
(* Properties of Buffer requests beyond the capacity.                      *)
(***************************************************************************)

\* C39: a get of more than the capacity is answered with an error at once,
\* as such a put is: it is not queued and its caller is not left waiting.
C39_GetBeyondCapacityFails ==
  [][\A i \in NewHistIx :
       (buf.hist'[i].op = "get" /\ buf.hist'[i].amt > buf.capacity) =>
         /\ buf.hist'[i].ev = "error"
         /\ buf.st'[buf.hist'[i].pid] = "Failed"
         /\ buf.getQueue' = buf.getQueue]_vars

\* What its being queued leads to: a get that can never be satisfied heads
\* the get queue of a full Buffer, and a later get that the level would
\* satisfy waits behind it.
C39_GetStuckBehindImpossibleGet ==
  /\ Len(buf.getQueue) >= 2
  /\ Head(buf.getQueue).amt > buf.capacity
  /\ buf.level = buf.capacity
  /\ buf.getQueue[2].amt <= buf.level

(***************************************************************************)
(* Properties of suspension and resumption.                                *)
(***************************************************************************)

\* The event executed in the step belongs to a suspension of its process
\* that has already been ended.
StaleEventRuns ==
  /\ queue # {}
  /\ trace' = Append(trace, MinEvent(queue))
  /\ MinEvent(queue).kind \in {"timer", "interrupt"}
  /\ MinEvent(queue).tok # procs[MinEvent(queue).pid].tok

\* The last entry before n in which process p was resumed after a grant.
LastResume(p, n) ==
  CHOOSE m \in EntriesOf(p, "resume") :
    m < n /\ \A k \in EntriesOf(p, "resume") : k < n => k <= m

====
